---------------------------- MODULE Spec2Model ----------------------------
(***************************************************************************)
(* Air 13X dashboard (src/main.py): the AQI category resolver, the        *)
(* concurrent city-ranking aggregation, the ranking chart, and the script  *)
(* runs of a session (sidebar edits, "View Data" clicks, reruns).          *)
(*                                                                         *)
(* Python values are records [t, v, s]: t is the type tag, v the integer   *)
(* payload, s the characters of a str.  A finite float is kept in tenths   *)
(* (v = 10 * value), which is enough to tell truncation from rounding and  *)
(* from flooring; inf, -inf and nan have tags of their own.                *)
(***************************************************************************)
EXTENDS Integers, Sequences, FiniteSets, TLC

VARIABLES
    aqi_arg,          \* get_aqi_category: the argument of the call
    aqi_ret,          \* get_aqi_category: what the call produced, or NotCalled
    waqi_api_key,     \* st.session_state.waqi_api_key
    pc,               \* the script thread inside the ranking block
    next_submit,      \* index in CITIES_FOR_RANKING of the next executor.submit
    fstate,           \* per city: state of its future
    fresult,          \* per city: what its future holds once finished
    fresponse,        \* per city: what its request came back with
    calls,            \* per city: how many times get_waqi_feed was started for it
    yielded,          \* the futures as_completed has handed to the loop body
    ranking_results,  \* the local list of readings
    ranking_errors,   \* the local list of error messages
    unique_errors,    \* the local list(set(ranking_errors))
    ranking_data,     \* st.session_state.ranking_data (<<>> is None, <<l>> the list l)
    ranking_error,    \* st.session_state.ranking_error (<<>> is None, <<e>> the text e)
    top_cities,       \* what section 7, "Live AQI - Selected Major Cities", renders
    dedup_arg,        \* list(set(...)): the list it is applied to
    dedup_ret,        \* list(set(...)): <<>> before the call, <<l>> the list l after it
    chart_arg,        \* create_ranking_bar_chart: the ranking_data it is called with
    chart_ret,        \* create_ranking_bar_chart: <<>> before the call, <<bars>> after it
    widget_key,       \* browser: the text in the "WAQI API Key" field
    inputs,           \* browser: the text in each of the six other sidebar fields
    clicked,          \* browser: "View Data" was pressed and no run has seen it yet
    rerun_requested,  \* a widget changed: Streamlit is to run the script again
    run_clicked,      \* what st.button("View Data") returned in the latest run
    discarded,        \* whether the button handler of the latest run reset a ranking result
    view_data_clicked, \* st.session_state.view_data_clicked
    owm_arg,          \* get_owm_aqi_forecast_category: the argument of the call
    owm_ret,          \* get_owm_aqi_forecast_category: <<>> before the call, <<label>> after it
    rec_arg,          \* the recommendation lookup: <<>> or <<label>>, the label looked up
    rec_ret,          \* the recommendation lookup: <<>> before it, <<outcome>> after it
    feed_key,         \* get_waqi_feed: the argument api_key
    feed_city,        \* get_waqi_feed: the argument city_identifier
    feed_resp,        \* get_waqi_feed: what its request comes back with
    feed_ret,         \* get_waqi_feed: NoResult before the call, its outcome after it
    coord_args,       \* get_coordinates: the arguments city, state, country
    coord_resps,      \* get_coordinates: what a first and a second request come back with
    coord_requests,   \* get_coordinates: the location queries requested, in order
    coord_ret,        \* get_coordinates: <<>> before the call, <<(coords, error)>> after it
    session_inputs,   \* st.session_state: the six other inputs as the latest run copied them
    fields,           \* st.session_state: coordinates, coordinates_error and the six
                      \* data/error pairs of the dependent features (<<>> is None)
    fetch_success,    \* local of the dashboard pass
    lat,              \* local of the dashboard pass (<<>> is None)
    lon,              \* local of the dashboard pass (<<>> is None)
    step,             \* position of the dashboard pass: 0 before the coordinates, 1 after
                      \* them, k in 1..6 before the k-th dependent feature, 7 after them
    sent,             \* per lookup: the (lat, lon) of each request sent since the last click
    geo_sent,         \* the geocoding queries requested since the last click
    ranking_sent,     \* per city: feed requests started since the last click
    pass_completed    \* a dashboard pass has run to its end since the last click

catVars == <<aqi_arg, aqi_ret>>
rankVars == <<waqi_api_key, pc, next_submit, fstate, fresult, fresponse, calls, yielded,
              ranking_results, ranking_errors, unique_errors, ranking_data, ranking_error,
              top_cities>>
dedupVars == <<dedup_arg, dedup_ret>>
chartVars == <<chart_arg, chart_ret>>
sessVars == <<widget_key, inputs, clicked, rerun_requested, run_clicked, discarded,
              view_data_clicked>>
labelVars == <<owm_arg, owm_ret, rec_arg, rec_ret>>
feedVars == <<feed_key, feed_city, feed_resp, feed_ret>>
coordVars == <<coord_args, coord_resps, coord_requests, coord_ret>>
dashVars == <<session_inputs, fields, fetch_success, lat, lon, step, sent, geo_sent,
              ranking_sent, pass_completed>>
vars == <<catVars, rankVars, dedupVars, chartVars, sessVars, labelVars, feedVars, coordVars,
          dashVars>>

----------------------------------------------------------------------------
(* Bounds of the resolver's inputs *)

MinAqiBelow == 6
MaxAqiInput == 505
BigAqiInput == 10000

----------------------------------------------------------------------------
(* Python values *)

PyNone == [t |-> "None", v |-> 0, s |-> <<>>]
PyInt(n) == [t |-> "int", v |-> n, s |-> <<>>]
PyFloatTenths(d) == [t |-> "float", v |-> d, s |-> <<>>]
PyInf == [t |-> "inf", v |-> 0, s |-> <<>>]
PyNegInf == [t |-> "-inf", v |-> 0, s |-> <<>>]
PyNaN == [t |-> "nan", v |-> 0, s |-> <<>>]
PyStr(cs) == [t |-> "str", v |-> 0, s |-> cs]

Digits == <<"0", "1", "2", "3", "4", "5", "6", "7", "8", "9">>

IsDigit(c) == \E i \in 1..10 : Digits[i] = c

DigitVal(c) == (CHOOSE i \in 1..10 : Digits[i] = c) - 1

RECURSIVE StripLeft(_)
StripLeft(cs) == IF cs # <<>> /\ Head(cs) = " " THEN StripLeft(Tail(cs)) ELSE cs

RECURSIVE StripRight(_)
StripRight(cs) ==
    IF cs # <<>> /\ cs[Len(cs)] = " " THEN StripRight(SubSeq(cs, 1, Len(cs) - 1)) ELSE cs

RECURSIVE DigitsValue(_, _)
DigitsValue(cs, acc) ==
    IF cs = <<>> THEN acc ELSE DigitsValue(Tail(cs), 10 * acc + DigitVal(Head(cs)))

IntOk(n) == [exc |-> "", v |-> n]
IntRaise(e) == [exc |-> e, v |-> 0]

(* int(str): surrounding blanks are dropped, one optional sign, then digits only *)
int_of_str(cs) ==
    LET body == StripRight(StripLeft(cs))
        signed == body # <<>> /\ Head(body) \in {"+", "-"}
        ds == IF signed THEN Tail(body) ELSE body
    IN  IF ds = <<>> \/ \E i \in 1..Len(ds) : ~IsDigit(ds[i])
        THEN IntRaise("ValueError")
        ELSE IF signed /\ Head(body) = "-"
             THEN IntOk(0 - DigitsValue(ds, 0))
             ELSE IntOk(DigitsValue(ds, 0))

(* int(float): truncation toward zero; inf overflows, nan is a ValueError *)
int_of_float_tenths(d) == IF d >= 0 THEN d \div 10 ELSE 0 - ((0 - d) \div 10)

py_int(x) ==
    CASE x.t = "int" -> IntOk(x.v)
      [] x.t = "float" -> IntOk(int_of_float_tenths(x.v))
      [] x.t \in {"inf", "-inf"} -> IntRaise("OverflowError")
      [] x.t = "nan" -> IntRaise("ValueError")
      [] x.t = "str" -> int_of_str(x.s)
      [] OTHER -> IntRaise("TypeError")

----------------------------------------------------------------------------
(* AQI category resolver *)

AQI_CATEGORIES == <<
    [lower |-> 0, upper |-> 50, label |-> "Good", color |-> "#5EC445"],
    [lower |-> 51, upper |-> 100, label |-> "Moderate", color |-> "#F5E769"],
    [lower |-> 101, upper |-> 150, label |-> "Unhealthy for Sensitive Groups", color |-> "#FE9B57"],
    [lower |-> 151, upper |-> 200, label |-> "Unhealthy", color |-> "#FE6A69"],
    [lower |-> 201, upper |-> 300, label |-> "Very Unhealthy", color |-> "#A97ABC"],
    [lower |-> 301, upper |-> 500, label |-> "Hazardous", color |-> "#A06A7B"] >>

Returned(label, color) == [exc |-> "", label |-> label, color |-> color]
Raised(e) == [exc |-> e, label |-> "", color |-> ""]
NotCalled == [exc |-> "not called", label |-> "", color |-> ""]

UnknownCategory == Returned("Unknown", "#808080")

InBandHalfOpen(band, aqi) == band.lower < aqi /\ aqi <= band.upper

InBand(band, aqi) == band.lower <= aqi /\ aqi <= band.upper

get_aqi_category(aqi) ==
    IF aqi.t = "None" THEN UnknownCategory
    ELSE LET r == py_int(aqi) IN
         IF r.exc \in {"ValueError", "TypeError"} THEN UnknownCategory
         ELSE IF r.exc # "" THEN Raised(r.exc)
         ELSE LET hits == {i \in 1..Len(AQI_CATEGORIES) : InBand(AQI_CATEGORIES[i], r.v)} IN
              IF hits # {}
              THEN LET first == CHOOSE i \in hits : \A j \in hits : i <= j
                   IN  Returned(AQI_CATEGORIES[first].label, AQI_CATEGORIES[first].color)
              ELSE IF r.v > 500
                   THEN Returned(AQI_CATEGORIES[6].label, AQI_CATEGORIES[6].color)
                   ELSE UnknownCategory

----------------------------------------------------------------------------
(* The resolver called on every kind of argument *)

CatStrings == {
    <<"a", "b", "c">>, <<>>, <<"4", "2">>, <<"-", "5">>, <<"5", "0", ".", "5">>,
    <<" ", "5", "1", " ">>, <<"5", "0", "1">>, <<"+", "7">>, <<"-">>, <<"i", "n", "f">>,
    <<"-", "0", ".", "5">> }

CatInts == ((0 - MinAqiBelow)..MaxAqiInput) \cup {BigAqiInput}

CatInputs ==
    {PyNone, PyInf, PyNegInf, PyNaN}
      \cup {PyInt(n) : n \in CatInts}
      \cup {PyFloatTenths(d) : d \in (0 - 10 * MinAqiBelow)..(10 * MaxAqiInput + 5)}
      \cup {PyFloatTenths(10 * BigAqiInput + 5)}
      \cup {PyStr(cs) : cs \in CatStrings}


CatIdle == aqi_arg = PyNone /\ aqi_ret = NotCalled

CatInit == aqi_arg \in CatInputs /\ aqi_ret = NotCalled

CallCategory ==
    /\ aqi_ret = NotCalled
    /\ aqi_ret' = get_aqi_category(aqi_arg)
    /\ UNCHANGED aqi_arg

----------------------------------------------------------------------------
(* The OWM index resolver and the health recommendations *)

OWM_AQI_MAP == <<"Good (1)", "Fair (2)", "Moderate (3)", "Poor (4)", "Very Poor (5)">>

(* a dict key k (an int) is found by any value equal to it: 1 and 1.0 *)
EqualsInt(value, k) ==
    \/ value.t = "int" /\ value.v = k
    \/ value.t = "float" /\ value.v = 10 * k

owm_default_first(aqi_value) ==
    LET keys == {k \in 1..Len(OWM_AQI_MAP) : EqualsInt(aqi_value, k)} IN
    IF keys = {} THEN OWM_AQI_MAP[1] ELSE OWM_AQI_MAP[CHOOSE k \in keys : TRUE]

(* OWM_AQI_MAP.get(aqi_value, "Unknown") *)
get_owm_aqi_forecast_category(aqi_value) ==
    LET keys == {k \in 1..Len(OWM_AQI_MAP) : EqualsInt(aqi_value, k)} IN
    IF keys = {} THEN "Unknown" ELSE OWM_AQI_MAP[CHOOSE k \in keys : TRUE]

HEALTH_RECOMMENDATIONS == [label \in
    {"Good", "Moderate", "Unhealthy for Sensitive Groups", "Unhealthy", "Very Unhealthy",
     "Hazardous", "Unknown"} |->
    CASE label = "Good" ->
           [short |-> "Air quality is satisfactory.",
            details |-> "It's a great day to be active outside."]
      [] label = "Moderate" ->
           [short |-> "Acceptable air quality.",
            details |-> "Unusually sensitive individuals: Consider reducing prolonged or heavy exertion outdoors."]
      [] label = "Unhealthy for Sensitive Groups" ->
           [short |-> "Sensitive groups may experience health effects.",
            details |-> "**Sensitive groups (heart/lung disease, older adults, children):** Reduce prolonged/heavy exertion outdoors. Take more breaks.\n\n**General public:** Okay outside, watch for symptoms."]
      [] label = "Unhealthy" ->
           [short |-> "Some may experience health effects; sensitive groups more serious effects.",
            details |-> "**Sensitive groups:** Avoid prolonged/heavy exertion outdoors. Move activities indoors or reschedule.\n\n**General public:** Reduce prolonged/heavy exertion outdoors."]
      [] label = "Very Unhealthy" ->
           [short |-> "Health alert: Increased risk for everyone.",
            details |-> "**Sensitive groups:** Avoid all physical activity outdoors. Move activities indoors.\n\n**General public:** Avoid prolonged/heavy exertion. Consider moving activities indoors."]
      [] label = "Hazardous" ->
           [short |-> "Health warning: Emergency conditions.",
            details |-> "**Everyone:** Avoid all physical activity outdoors.\n\n**Sensitive groups:** Remain indoors, keep activity low."]
      [] label = "Unknown" ->
           [short |-> "AQI category could not be determined.",
            details |-> "Health recommendations unavailable."]]

Found(entry) == [exc |-> "", entry |-> entry]
KeyError == [exc |-> "KeyError", entry |-> [short |-> "", details |-> ""]]

recommendation_subscript(category_label) ==
    IF category_label \in DOMAIN HEALTH_RECOMMENDATIONS
    THEN Found(HEALTH_RECOMMENDATIONS[category_label])
    ELSE KeyError

(* HEALTH_RECOMMENDATIONS.get(category_label, HEALTH_RECOMMENDATIONS["Unknown"]) *)
recommendation(category_label) ==
    IF category_label \in DOMAIN HEALTH_RECOMMENDATIONS
    THEN Found(HEALTH_RECOMMENDATIONS[category_label])
    ELSE Found(HEALTH_RECOMMENDATIONS["Unknown"])

LabelIdle == owm_arg = PyNone /\ owm_ret = <<>> /\ rec_arg = <<>> /\ rec_ret = <<>>

(* both resolvers are given the same value *)
LabelInit == owm_arg = aqi_arg /\ owm_ret = <<>> /\ rec_arg = <<>> /\ rec_ret = <<>>

CallOwm ==
    /\ owm_ret = <<>>
    /\ owm_ret' = <<get_owm_aqi_forecast_category(owm_arg)>>
    /\ UNCHANGED <<owm_arg, rec_arg, rec_ret>>

(* the label of either resolver is looked up: line 554 looks up the label   *)
(* get_aqi_category returned; a label of the OWM resolver is one the table  *)
(* does not know                                                            *)
LookupRecommendation ==
    /\ rec_ret = <<>>
    /\ \E label \in (IF aqi_ret.exc = "" THEN {aqi_ret.label} ELSE {})
                      \cup {owm_ret[i] : i \in 1..Len(owm_ret)} :
          /\ rec_arg' = <<label>>
          /\ rec_ret' = <<recommendation(label)>>
    /\ UNCHANGED <<owm_arg, owm_ret>>

----------------------------------------------------------------------------
(* float(x), as get_waqi_feed applies it to the "aqi" field of a response. *)
(* A str is read as sign, digits and at most one digit after the point     *)
(* (further digits must be zeros to be exact in tenths), or inf / nan.     *)

FloatOk(x) == [exc |-> "", val |-> x]
FloatRaise(e) == [exc |-> e, val |-> PyNone]

PointAt(cs) == IF \E i \in 1..Len(cs) : cs[i] = "."
               THEN CHOOSE i \in 1..Len(cs) : cs[i] = "." /\ \A j \in 1..(i - 1) : cs[j] # "."
               ELSE 0

float_of_str(cs) ==
    LET body == StripRight(StripLeft(cs))
        signed == body # <<>> /\ Head(body) \in {"+", "-"}
        neg == signed /\ Head(body) = "-"
        ds == IF signed THEN Tail(body) ELSE body
        p == PointAt(ds)
        whole == IF p = 0 THEN ds ELSE SubSeq(ds, 1, p - 1)
        frac == IF p = 0 THEN <<>> ELSE SubSeq(ds, p + 1, Len(ds))
        allDigits(xs) == \A i \in 1..Len(xs) : IsDigit(xs[i])
        tenths == 10 * DigitsValue(whole, 0) + (IF frac = <<>> THEN 0 ELSE DigitVal(frac[1]))
    IN  IF ds \in {<<"i", "n", "f">>, <<"i", "n", "f", "i", "n", "i", "t", "y">>}
        THEN FloatOk(IF neg THEN PyNegInf ELSE PyInf)
        ELSE IF ds = <<"n", "a", "n">> THEN FloatOk(PyNaN)
        ELSE IF (whole = <<>> /\ frac = <<>>) \/ ~allDigits(whole) \/ ~allDigits(frac)
             THEN FloatRaise("ValueError")
             ELSE FloatOk(PyFloatTenths(IF neg THEN 0 - tenths ELSE tenths))

py_float(x) ==
    CASE x.t = "int" -> FloatOk(PyFloatTenths(10 * x.v))
      [] x.t \in {"float", "inf", "-inf", "nan"} -> FloatOk(x)
      [] x.t = "str" -> float_of_str(x.s)
      [] OTHER -> FloatRaise("TypeError")

----------------------------------------------------------------------------
(* Configuration of the ranking feature *)

CITIES_FOR_RANKING == <<
    "@1437", "@3362", "@990", "lahore", "karachi", "kolkata", "mumbai",
    "kathmandu", "hanoi", "jakarta/central", "bangkok", "shanghai", "wuhan",
    "london", "paris", "los angeles", "new york", "mexico city", "sao paulo", "lima" >>

(* ThreadPoolExecutor(max_workers=5) *)
MaxWorkers == 5

(* How many entries of CITIES_FOR_RANKING, from the first, a run dispatches: *)
(* NumCities with every kind of response, NumPoolCities (more than the pool *)
(* has workers) with the two commonest responses.                           *)
NumCities == 3
NumPoolCities == 6

(* How many entries a run dispatches when the whole session is followed *)
MaxFeedAqi == 12
NumDashCities == 1
NumSessionCities == 2

(* How many entries a run under fair scheduling dispatches *)
NumLiveCities == 3

(* The longest ranking_data the chart is called with: more than top_n *)
MaxChartLen == 11

(* The entries of CITIES_FOR_RANKING a run of the model can dispatch *)
Slots == 1..(IF NumCities > NumPoolCities THEN NumCities ELSE NumPoolCities)

----------------------------------------------------------------------------
(* Texts are sequences of words; `pat in text` is a contiguous run of words *)

Contains(text, pat) ==
    \E i \in 1..(Len(text) - Len(pat) + 1) : SubSeq(text, i, i + Len(pat) - 1) = pat

RankingErrorPrefix(city_identifier) == <<"Ranking", "Error", "(", city_identifier, "):">>

----------------------------------------------------------------------------
(* What the WAQI feed request of one city can come back with.              *)
(*   kind   "json": response.json() gave a dict; "request_exception": a    *)
(*          requests RequestException (timeout, connection, bad JSON);     *)
(*          "other_exception": any other Exception inside the try block;   *)
(*          "task_raises": the call raised outside its own try block       *)
(*   status the "status" field; aqi the "aqi" field of "data" (PyNone when *)
(*          absent); name the city name of "data" (<<>> when absent)       *)
(*   text   the "data" field of an error response (<<>> when absent), or   *)
(*          the text of the exception                                      *)

JsonOk(aqi, name) ==
    [kind |-> "json", status |-> "ok", aqi |-> aqi, name |-> name, text |-> <<>>]
JsonError(text) ==
    [kind |-> "json", status |-> "error", aqi |-> PyNone, name |-> <<>>, text |-> text]
JsonOther(status) ==
    [kind |-> "json", status |-> status, aqi |-> PyNone, name |-> <<>>, text |-> <<>>]
Failure(kind, text) ==
    [kind |-> kind, status |-> "", aqi |-> PyNone, name |-> <<>>, text |-> text]

(* What a future holds: a returned (data, error) pair, or a raised exception. *)
(* None is <<>>; a reading or a message is a one-element sequence.            *)
FeedReturn(data, error) == [kind |-> "returned", data |-> data, error |-> error, exc |-> <<>>]
FeedRaise(text) == [kind |-> "raised", data |-> <<>>, error |-> <<>>, exc |-> text]
NoResult == [kind |-> "unset", data |-> <<>>, error |-> <<>>, exc |-> <<>>]
NoResponse == Failure("none", <<>>)

(* section 7 before the script has reached it *)
NotRendered == [kind |-> "none", text |-> <<>>, bars |-> <<>>]

Reading(name, aqi) == [name |-> name, aqi |-> aqi]

request_failed_silently(prefix, err) == FeedReturn(<<>>, <<>>)

(* except requests.exceptions.RequestException as err (line 179) *)
request_failed(prefix, err) == FeedReturn(<<>>, <<prefix \o <<"Request", "failed", "-">> \o err>>)

get_waqi_feed_by_status(api_key, city_identifier, resp) ==
    IF resp.kind = "json" /\ resp.status = "ok"
    THEN FeedReturn(<<Reading(city_identifier, py_int(resp.aqi).v)>>, <<>>)
    ELSE FeedReturn(<<>>, <<RankingErrorPrefix(city_identifier) \o <<"failed">>>>)

get_waqi_feed(api_key, city_identifier, resp) ==
    LET prefix == RankingErrorPrefix(city_identifier)
        hard(text) == FeedReturn(<<>>, <<prefix \o text>>)
        soft == FeedReturn(<<>>, <<>>)
    IN
    IF api_key = "" THEN hard(<<"WAQI", "API", "Key", "missing.">>)
    ELSE IF resp.kind = "task_raises" THEN FeedRaise(resp.text)
    ELSE IF resp.kind = "request_exception" THEN request_failed(prefix, resp.text)
    ELSE IF resp.kind = "other_exception" THEN hard(<<"Unexpected", "error", "-">> \o resp.text)
    ELSE IF resp.status = "ok" THEN
        LET station_name == IF resp.name = <<>> THEN city_identifier ELSE resp.name[1]
            f == IF resp.aqi.t = "None" THEN FloatRaise("None") ELSE py_float(resp.aqi)
            i == IF f.exc = "" THEN py_int(f.val) ELSE IntRaise(f.exc)
        IN  IF resp.aqi.t = "None" THEN soft
            ELSE IF i.exc = "" THEN FeedReturn(<<Reading(station_name, i.v)>>, <<>>)
            ELSE IF i.exc \in {"ValueError", "TypeError"} THEN soft
            ELSE hard(<<"Unexpected", "error", "-", i.exc>>)
    ELSE IF resp.status = "error" THEN
        LET error_message == IF resp.text = <<>> THEN <<"Unknown", "WAQI", "error.">> ELSE resp.text
        IN  IF error_message = <<"Unknown", "station">> THEN soft
            ELSE IF error_message = <<"Invalid", "key">>
                 THEN hard(<<"Invalid", "WAQI", "API", "Key.">>)
                 ELSE hard(<<"WAQI", "API", "-">> \o error_message)
    ELSE soft

----------------------------------------------------------------------------
(* Geocoding: get_coordinates and _fetch_owm_coords (lines 206-229).       *)
(* A location query and a message are sequences of tokens; "," is a token. *)

RECURSIVE lstrip_commas(_)
lstrip_commas(q) == IF q # <<>> /\ Head(q) = "," THEN lstrip_commas(Tail(q)) ELSE q

RECURSIVE rstrip_commas(_)
rstrip_commas(q) ==
    IF q # <<>> /\ q[Len(q)] = "," THEN rstrip_commas(SubSeq(q, 1, Len(q) - 1)) ELSE q

(* str.strip(',') *)
strip_commas(q) == rstrip_commas(lstrip_commas(q))

(* f"{city},{state},{country}".strip(',') *)
location_query_full(city, state, country) ==
    strip_commas(city \o <<",">> \o state \o <<",">> \o country)

(* f"{city},{country}".strip(',') *)
location_query_simple(city, country) == strip_commas(city \o <<",">> \o country)

(* what the geocoding request comes back with:                             *)
(*   "list"  a non-empty JSON list; lat, lon the fields of its first item   *)
(*           (<<>> when absent)                                              *)
(*   "empty" an empty list;  "http" raise_for_status raised, code the status *)
(*   "request_exception", "other_exception" as for the feed                  *)
GeoList(la, lo) == [kind |-> "list", lat |-> la, lon |-> lo, code |-> 200, text |-> <<>>]
GeoEmpty == [kind |-> "empty", lat |-> <<>>, lon |-> <<>>, code |-> 200, text |-> <<>>]
GeoHttpError(code, text) ==
    [kind |-> "http", lat |-> <<>>, lon |-> <<>>, code |-> code, text |-> text]
GeoFailure(kind, text) == [kind |-> kind, lat |-> <<>>, lon |-> <<>>, code |-> 0, text |-> text]
GeoNone == GeoFailure("none", <<>>)

Coords(la, lo) == [lat |-> la, lon |-> lo]
CoordsReturn(coords, error) == [coords |-> coords, error |-> error]

_fetch_owm_coords(api_key, location_query, resp) ==
    LET quoted == <<"'">> \o location_query \o <<"'">> IN
    CASE resp.kind = "list" ->
           IF resp.lat # <<>> /\ resp.lon # <<>>
           THEN CoordsReturn(<<Coords(resp.lat[1], resp.lon[1])>>, <<>>)
           ELSE CoordsReturn(<<>>, <<<<"Geocoding", "failed", ":", "Lat/Lon", "not", "found", "for">>
                                      \o quoted \o <<".">>>>)
      [] resp.kind = "empty" ->
           CoordsReturn(<<>>, <<<<"Geocoding", "failed", ":", "Location">> \o quoted
                                  \o <<"not", "found", ".">>>>)
      [] resp.kind = "http" ->
           IF resp.code = 401
           THEN CoordsReturn(<<>>, <<<<"Geocoding", "Error", ":", "Invalid", "OWM", "API", "Key", ".">>>>)
           ELSE CoordsReturn(<<>>, <<<<"Geocoding", "Error", ":", "HTTP", "Error", "for">>
                                      \o quoted \o <<"-">> \o resp.text>>)
      [] resp.kind = "request_exception" ->
           CoordsReturn(<<>>, <<<<"Geocoding", "Error", ":", "Request", "failed", "for">>
                                  \o quoted \o <<"-">> \o resp.text>>)
      [] OTHER ->
           CoordsReturn(<<>>, <<<<"Geocoding", "Error", ":", "Unexpected", "error", "for">>
                                  \o quoted \o <<"-">> \o resp.text>>)

(* the test of line 209 on the first outcome *)
retry_wanted(first) ==
    /\ first.coords = <<>>
    /\ first.error # <<>>
    /\ first.error[1] # <<>>
    /\ ~Contains(first.error[1], <<"Invalid", "API", "key">>)

(* the outcome of get_coordinates and the queries it requested; resps[1]   *)
(* answers the first request and resps[2] the second                       *)
get_coordinates(api_key, city, state, country, resps) ==
    LET full == location_query_full(city, state, country)
        simple == location_query_simple(city, country)
        first == _fetch_owm_coords(api_key, full, resps[1])
    IN  IF retry_wanted(first) /\ simple # full
        THEN [ret |-> _fetch_owm_coords(api_key, simple, resps[2]), requests |-> <<full, simple>>]
        ELSE [ret |-> first, requests |-> <<full>>]

GeoResponses == {
    GeoList(<<237>>, <<904>>),
    GeoList(<<>>, <<904>>),
    GeoList(<<237>>, <<>>),
    GeoEmpty,
    GeoHttpError(401, <<"401", "Client", "Error", ":", "Unauthorized">>),
    GeoHttpError(404, <<"404", "Client", "Error", ":", "Not", "Found">>),
    GeoHttpError(403, <<"403", "Client", "Error", ":", "Invalid", "API", "key">>),
    GeoFailure("request_exception", <<"Read", "timed", "out.">>),
    GeoFailure("other_exception", <<"'NoneType'", "object", "has", "no", "attribute", "'get'">>) }

CoordIdle ==
    /\ coord_args = [city |-> <<>>, state |-> <<>>, country |-> <<>>]
    /\ coord_resps = <<GeoNone, GeoNone>>
    /\ coord_requests = <<>>
    /\ coord_ret = <<>>

CoordInit ==
    /\ coord_args \in [city : {<<>>, <<"Dhaka">>}, state : {<<>>, <<"Dhaka", "Division">>},
                        country : {<<>>, <<"BD">>}]
    /\ coord_resps \in GeoResponses \X GeoResponses
    /\ coord_requests = <<>>
    /\ coord_ret = <<>>

CallCoordinates ==
    /\ coord_ret = <<>>
    /\ LET r == get_coordinates("owm-key", coord_args.city, coord_args.state,
                                coord_args.country, coord_resps)
       IN  coord_ret' = <<r.ret>> /\ coord_requests' = r.requests
    /\ UNCHANGED <<coord_args, coord_resps>>

----------------------------------------------------------------------------
(* One call of get_waqi_feed, over what the request of its try block can   *)
(* come back with                                                          *)

FeedAqis ==
    {PyNone, PyInf, PyNegInf, PyNaN}
      \cup {PyInt(n) : n \in (0 - 1)..MaxFeedAqi}
      \cup {PyFloatTenths(d) : d \in (0 - 5)..MaxFeedAqi}
      \cup {PyStr(cs) : cs \in CatStrings}

FeedResponses ==
    {JsonOk(aqi, name) : aqi \in FeedAqis, name \in {<<>>, <<"Beijing US Embassy">>}}
      \cup { JsonError(<<"Unknown", "station">>),
             JsonError(<<"Invalid", "key">>),
             JsonError(<<"Over", "quota">>),
             JsonError(<<>>),
             JsonOther("nope"),
             Failure("request_exception", <<"Read", "timed", "out.">>),
             Failure("request_exception", <<"Expecting", "value">>),
             Failure("other_exception", <<"'list'", "object", "has", "no", "attribute", "'get'">>) }

FeedIdle ==
    /\ feed_key = ""
    /\ feed_city = ""
    /\ feed_resp = NoResponse
    /\ feed_ret = NoResult

FeedInit ==
    /\ feed_key \in {"", "waqi-token"}
    /\ feed_city \in {CITIES_FOR_RANKING[1], CITIES_FOR_RANKING[4]}
    /\ feed_resp \in FeedResponses
    /\ feed_ret = NoResult

CallFeed ==
    /\ feed_ret = NoResult
    /\ feed_ret' = get_waqi_feed(feed_key, feed_city, feed_resp)
    /\ UNCHANGED <<feed_key, feed_city, feed_resp>>

----------------------------------------------------------------------------
(* The ranking block of the dashboard pass (main.py, lines 480-494)        *)

RankResponses == {
    JsonOk(PyInt(187), <<>>),
    JsonOk(PyStr(<<"-">>), <<>>),
    JsonError(<<"Unknown", "station">>),
    JsonError(<<"Invalid", "key">>),
    JsonError(<<"Unknown", "station", "id">>),
    JsonOther("nope"),
    Failure("request_exception", <<"Read", "timed", "out.">>),
    Failure("task_raises", <<"MemoryError">>) }

PoolResponses == { JsonOk(PyInt(42), <<>>), JsonError(<<"Unknown", "station">>) }

(* requests.get(..., timeout=10): the call answers or times out *)
TimedOut == Failure("request_exception", <<"Read", "timed", "out.">>)
LiveResponses == { JsonOk(PyInt(42), <<>>), TimedOut }

Running == {c \in Slots : fstate[c] = "running"}

WorkerFreeOffByOne == Cardinality(Running) <= MaxWorkers

(* a worker thread of the pool is idle *)
WorkerFree == Cardinality(Running) < MaxWorkers

set_result_lost(fs, c, r) == fs

set_result_cancelling(fs, c, r) ==
    [d \in Slots |->
        IF d = c THEN "finished"
        ELSE IF fs[d] = "pending" /\ (r.kind = "raised" \/ r.error # <<>>) THEN "finished"
        ELSE fs[d]]

(* the worker stores the outcome in the future of its own task *)
set_result(fs, c, r) == [fs EXCEPT ![c] = "finished"]

FirstCompleted(n) == yielded # {}

(* as_completed has yielded every future of future_to_city *)
LoopExhausted(n) == yielded = 1..n

(* The body of the for loop on one future: what it appends to each list,    *)
(* and whether an exception leaves it (none does: line 491 catches them)    *)
Appends(results, errors) == [results |-> results, errors |-> errors, raises |-> FALSE]
Escapes == [results |-> <<>>, errors |-> <<>>, raises |-> TRUE]

loop_body_unfiltered(city, r) ==
    IF r.kind = "raised"
    THEN Appends(<<>>, <<RankingErrorPrefix(city) \o <<"Exception", "-">> \o r.exc>>)
    ELSE IF r.error # <<>> THEN Appends(<<>>, r.error)
    ELSE IF r.data # <<>> THEN Appends(r.data, <<>>)
    ELSE Appends(<<>>, <<>>)

loop_body_uncaught(city, r) ==
    IF r.kind = "raised" THEN Escapes
    ELSE IF /\ r.error # <<>>
            /\ ~Contains(r.error[1], <<"Unknown", "station">>)
            /\ ~Contains(r.error[1], <<"Unexpected", "WAQI", "status">>)
         THEN Appends(<<>>, r.error)
    ELSE IF r.data # <<>> THEN Appends(r.data, <<>>)
    ELSE Appends(<<>>, <<>>)

loop_body(city, r) ==
    IF r.kind = "raised"
    THEN Appends(<<>>, <<RankingErrorPrefix(city) \o <<"Exception", "-">> \o r.exc>>)
    ELSE IF /\ r.error # <<>>
            /\ ~Contains(r.error[1], <<"Unknown", "station">>)
            /\ ~Contains(r.error[1], <<"Unexpected", "WAQI", "status">>)
         THEN Appends(<<>>, r.error)
    ELSE IF r.data # <<>> THEN Appends(r.data, <<>>)
    ELSE Appends(<<>>, <<>>)

list_append_stale(xs, ys) == ys

(* ranking_results.append(data) / ranking_errors.append(error) *)
list_append(xs, ys) == xs \o ys

Range(xs) == {xs[i] : i \in 1..Len(xs)}

RECURSIVE Orderings(_)
Orderings(S) ==
    IF S = {} THEN {<<>>}
    ELSE UNION {{<<x>> \o rest : rest \in Orderings(S \ {x})} : x \in S}

keep_all(xs) == {xs}

(* list(set(xs)): the distinct elements, in the order the set happens to have *)
list_of_set(xs) == Orderings(Range(xs))

RECURSIVE Join(_, _)
Join(sep, texts) ==
    IF texts = <<>> THEN <<>>
    ELSE IF Len(texts) = 1 THEN texts[1]
    ELSE texts[1] \o <<sep>> \o Join(sep, Tail(texts))

ranking_error_text_eager(uniq) ==
    Join(";", SubSeq(uniq, 1, IF Len(uniq) < 2 THEN Len(uniq) ELSE 2))
        \o (IF Len(uniq) >= 2 THEN <<"...">> ELSE <<>>)

(* "; ".join(unique_errors[:2]) + ('...' if len(unique_errors) > 2 else '') *)
ranking_error_text(uniq) ==
    Join(";", SubSeq(uniq, 1, IF Len(uniq) < 2 THEN Len(uniq) ELSE 2))
        \o (IF Len(uniq) > 2 THEN <<"...">> ELSE <<>>)

RankIdle ==
    /\ waqi_api_key = ""
    /\ pc = "idle"
    /\ next_submit = 1
    /\ fstate = [c \in Slots |-> "none"]
    /\ fresult = [c \in Slots |-> NoResult]
    /\ fresponse = [c \in Slots |-> NoResponse]
    /\ calls = [c \in Slots |-> 0]
    /\ yielded = {}
    /\ ranking_results = <<>>
    /\ ranking_errors = <<>>
    /\ unique_errors = <<>>
    /\ ranking_data = <<>>
    /\ ranking_error = <<>>
    /\ top_cities = NotRendered

(* The pass has reached line 480 after a valid "View Data" click: the key  *)
(* is set, ranking_data and ranking_error are None, the lists are empty.   *)
RankInit ==
    /\ waqi_api_key = "waqi-token"
    /\ pc = "submit"
    /\ next_submit = 1
    /\ fstate = [c \in Slots |-> "none"]
    /\ fresult = [c \in Slots |-> NoResult]
    /\ fresponse = [c \in Slots |-> NoResponse]
    /\ calls = [c \in Slots |-> 0]
    /\ yielded = {}
    /\ ranking_results = <<>>
    /\ ranking_errors = <<>>
    /\ unique_errors = <<>>
    /\ ranking_data = <<>>
    /\ ranking_error = <<>>
    /\ top_cities = NotRendered

(* executor.submit(get_waqi_feed, key, city) for the next city of the list *)
Submit(n) ==
    /\ pc = "submit"
    /\ next_submit <= n
    /\ fstate' = [fstate EXCEPT ![next_submit] = "pending"]
    /\ next_submit' = next_submit + 1
    /\ pc' = IF next_submit = n THEN "collect" ELSE "submit"
    /\ UNCHANGED <<waqi_api_key, fresult, fresponse, calls, yielded, ranking_results,
                   ranking_errors, unique_errors, ranking_data, ranking_error, top_cities>>

(* an idle worker takes the oldest queued task and calls get_waqi_feed *)
StartFetch ==
    /\ WorkerFree
    /\ \E c \in Slots :
        /\ fstate[c] = "pending"
        /\ \A d \in Slots : d < c => fstate[d] # "pending"
        /\ fstate' = [fstate EXCEPT ![c] = "running"]
        /\ calls' = [calls EXCEPT ![c] = @ + 1]
    /\ UNCHANGED <<waqi_api_key, pc, next_submit, fresult, fresponse, yielded, ranking_results,
                   ranking_errors, unique_errors, ranking_data, ranking_error, top_cities>>

(* the request of a running task settles and the task ends *)
FinishFetch(responses) ==
    /\ \E c \in Running, resp \in responses :
        LET r == get_waqi_feed(waqi_api_key, CITIES_FOR_RANKING[c], resp) IN
        /\ fresult' = [fresult EXCEPT ![c] = r]
        /\ fresponse' = [fresponse EXCEPT ![c] = resp]
        /\ fstate' = set_result(fstate, c, r)
    /\ UNCHANGED <<waqi_api_key, pc, next_submit, calls, yielded, ranking_results,
                   ranking_errors, unique_errors, ranking_data, ranking_error, top_cities>>

(* as_completed yields a finished future and the loop body handles it *)
Collect ==
    /\ pc = "collect"
    /\ \E c \in Slots :
        /\ fstate[c] = "finished"
        /\ c \notin yielded
        /\ LET a == loop_body(CITIES_FOR_RANKING[c], fresult[c]) IN
            /\ ranking_results' = list_append(ranking_results, a.results)
            /\ ranking_errors' = list_append(ranking_errors, a.errors)
            /\ pc' = IF a.raises THEN "raised" ELSE "collect"
        /\ yielded' = yielded \cup {c}
    /\ UNCHANGED <<waqi_api_key, next_submit, fstate, fresult, fresponse, calls, unique_errors,
                   ranking_data, ranking_error, top_cities>>

(* the loop and the executor block are left; lines 492-494 *)
Publish(n) ==
    /\ pc = "collect"
    /\ LoopExhausted(n)
    /\ ranking_data' = <<ranking_results>>
    /\ \E uniq \in list_of_set(ranking_errors) :
        /\ unique_errors' = uniq
        /\ ranking_error' = IF uniq # <<>> THEN <<ranking_error_text(uniq)>> ELSE ranking_error
    /\ pc' = "done"
    /\ UNCHANGED <<waqi_api_key, next_submit, fstate, fresult, fresponse, calls, yielded,
                   ranking_results, ranking_errors, top_cities>>

----------------------------------------------------------------------------
(* Section 7 of the page: the ranking chart or the ranking error *)

(* create_ranking_bar_chart(st.session_state.ranking_data, top_n=10) *)
TopN == 10

(* sorted(..., key=aqi, reverse=True): stable, equal keys keep their order *)
RECURSIVE insert_desc(_, _)
insert_desc(sorted, x) ==
    IF sorted = <<>> THEN <<x>>
    ELSE IF Head(sorted).aqi >= x.aqi THEN <<Head(sorted)>> \o insert_desc(Tail(sorted), x)
    ELSE <<x>> \o sorted

RECURSIVE sorted_by_aqi_desc(_)
sorted_by_aqi_desc(xs) ==
    IF xs = <<>> THEN <<>>
    ELSE insert_desc(sorted_by_aqi_desc(SubSeq(xs, 1, Len(xs) - 1)), xs[Len(xs)])

Reversed(xs) == [i \in 1..Len(xs) |-> xs[Len(xs) + 1 - i]]

bottom_slice(sorted_data, top_n) ==
    SubSeq(sorted_data,
           IF Len(sorted_data) < top_n THEN 1 ELSE Len(sorted_data) - top_n + 1,
           Len(sorted_data))

(* sorted_data[:top_n] *)
top_slice(sorted_data, top_n) ==
    SubSeq(sorted_data, 1, IF Len(sorted_data) < top_n THEN Len(sorted_data) ELSE top_n)

(* the bars of the figure, from the bottom one to the top one (plot_data) *)
create_ranking_bar_chart(data, top_n) ==
    IF data = <<>> THEN <<>>
    ELSE Reversed(top_slice(sorted_by_aqi_desc(data), top_n))

(* lines 595-597 *)
top_cities_display(error, data) ==
    IF error # <<>> /\ error[1] # <<>>
    THEN [kind |-> "error", text |-> <<"City", "Ranking", "Error:">> \o error[1], bars |-> <<>>]
    ELSE IF data # <<>>
    THEN [kind |-> "chart", text |-> <<>>, bars |-> create_ranking_bar_chart(data[1], TopN)]
    ELSE [kind |-> "info", text |-> <<"Major", "city", "AQI", "data", "loading...">>,
          bars |-> <<>>]

RenderTopCities ==
    /\ pc = "done"
    /\ top_cities = NotRendered
    /\ top_cities' = top_cities_display(ranking_error, ranking_data)
    /\ UNCHANGED <<waqi_api_key, pc, next_submit, fstate, fresult, fresponse, calls, yielded,
                   ranking_results, ranking_errors, unique_errors, ranking_data, ranking_error>>

----------------------------------------------------------------------------
(* The session: Streamlit runs the script from the top whenever a widget   *)
(* changes, session_state outlives the runs, and a run that is under way   *)
(* when a widget changes is stopped at its next st.* call and replaced by  *)
(* a new one.  The sidebar (lines 437-462) is taken in one step; the run   *)
(* can then be replaced where it next calls st.*: from st.header (467) to  *)
(* the spinner of the ranking block (482), pc = "main", and from the end   *)
(* of that spinner on, pc = "done".  From line 483 to line 494 no st.* is  *)
(* called, so the block is never left half-way.                            *)

SessionResponses == { JsonOk(PyInt(42), <<>>), JsonOk(PyInt(187), <<>>), TimedOut }

WidgetKeys == {"", "waqi-token"}

OtherInputs ==
    {"iqair_api_key", "openweathermap_api_key", "mapbox_token", "country", "state_region", "city"}

(* what the user types into a field, as tokens *)
InputValue == [i \in OtherInputs |->
    CASE i = "city" -> <<"Dhaka">>
      [] i = "state_region" -> <<"Dhaka", "Division">>
      [] i = "country" -> <<"BD">>
      [] OTHER -> <<i>>]

NoInputs == [i \in OtherInputs |-> <<>>]

(* the six other sidebar fields are all non-empty *)
others_filled == \A i \in OtherInputs : inputs[i] # <<>>

(* the features of the dashboard with a data and an error field each, and *)
(* the lookups that send requests for the dependent ones                   *)
Features == <<"aqi", "weather", "history", "nearby", "forecast", "map">>
FieldPairs == {"coordinates"} \cup {Features[k] : k \in 1..Len(Features)}
Lookups == {"aqi", "weather", "history", "nearby", "weather_forecast", "aqi_forecast", "map"}

NoFields == [f \in FieldPairs |-> [data |-> <<>>, error |-> <<>>]]

(* default_states for the fields and locals of the dashboard pass *)
DashIdle ==
    /\ session_inputs = NoInputs
    /\ fields = NoFields
    /\ fetch_success = TRUE
    /\ lat = <<>>
    /\ lon = <<>>
    /\ step = 0
    /\ sent = [l \in Lookups |-> <<>>]
    /\ geo_sent = <<>>
    /\ ranking_sent = [c \in Slots |-> 0]
    /\ pass_completed = FALSE

(* the user has typed into the fields and the script has not run since *)
SessTyped ==
    /\ widget_key \in WidgetKeys
    /\ inputs \in {ins \in [OtherInputs -> {<<>>} \cup {InputValue[i] : i \in OtherInputs}] :
                      \A i \in OtherInputs : ins[i] \in {<<>>, InputValue[i]}}
    /\ clicked = FALSE
    /\ rerun_requested = TRUE
    /\ run_clicked = FALSE
    /\ discarded = FALSE
    /\ view_data_clicked = FALSE

(* the user has typed into all fields but "City" and the WAQI key *)
SessTyping ==
    /\ widget_key = ""
    /\ inputs = [InputValue EXCEPT !["city"] = <<>>]
    /\ clicked = FALSE
    /\ rerun_requested = TRUE
    /\ run_clicked = FALSE
    /\ discarded = FALSE
    /\ view_data_clicked = FALSE

(* before the first click; the fields are empty (default_states) *)
SessIdle ==
    /\ widget_key = ""
    /\ inputs = NoInputs
    /\ clicked = FALSE
    /\ rerun_requested = FALSE
    /\ run_clicked = FALSE
    /\ discarded = FALSE
    /\ view_data_clicked = FALSE

(* inside the run of a "View Data" click that passed the validation *)
SessMidRun ==
    /\ widget_key = "waqi-token"
    /\ inputs = InputValue
    /\ clicked = FALSE
    /\ rerun_requested = FALSE
    /\ run_clicked = TRUE
    /\ discarded = FALSE
    /\ view_data_clicked = TRUE

(* the user types into the WAQI key field, or empties it *)
EditKey ==
    /\ \E k \in WidgetKeys \ {widget_key} : widget_key' = k
    /\ rerun_requested' = TRUE
    /\ UNCHANGED <<rankVars, inputs, clicked, run_clicked, discarded, view_data_clicked>>

(* the field of the six others that the user goes on editing *)
EditedInputs == {"city"}

(* the user fills one of the other six fields, or empties it *)
EditOthers ==
    /\ \E i \in EditedInputs :
          inputs' = [inputs EXCEPT ![i] = IF @ = <<>> THEN InputValue[i] ELSE <<>>]
    /\ rerun_requested' = TRUE
    /\ UNCHANGED <<rankVars, widget_key, clicked, run_clicked, discarded, view_data_clicked>>

(* the user presses "View Data" *)
ClickViewData ==
    /\ ~clicked
    /\ clicked' = TRUE
    /\ rerun_requested' = TRUE
    /\ UNCHANGED <<rankVars, widget_key, inputs, run_clicked, discarded,
                   view_data_clicked>>

(* the validation of lines 453-460 looking at the four keys only *)
valid_keys_only(key, ins) ==
    /\ key # ""
    /\ \A i \in {"iqair_api_key", "openweathermap_api_key", "mapbox_token"} : ins[i] # <<>>

(* lines 453-460: valid stays True iff none of the seven inputs is empty *)
valid(key, ins) == key # "" /\ \A i \in OtherInputs : ins[i] # <<>>

keep_on_click(old) == old

(* st.session_state.ranking_data = None; st.session_state.ranking_error = None *)
reset_on_click(old) == <<>>

(* A run starts, replacing the one under way if there is one, and executes *)
(* the sidebar: the text inputs are copied into session_state and the      *)
(* button handler runs if the button was pressed.                          *)
StartRun ==
    /\ rerun_requested
    /\ pc \in {"idle", "main", "done"}
    /\ rerun_requested' = FALSE
    /\ waqi_api_key' = widget_key
    /\ run_clicked' = clicked
    /\ discarded' = (clicked /\ ranking_data # <<>>)
    /\ clicked' = FALSE
    /\ IF clicked
       THEN /\ ranking_data' = reset_on_click(ranking_data)
            /\ ranking_error' = reset_on_click(ranking_error)
            /\ fields' = [f \in DOMAIN fields |->
                            [data |-> reset_on_click(fields[f].data),
                             error |-> reset_on_click(fields[f].error)]]
            /\ view_data_clicked' = valid(widget_key, inputs)
            /\ sent' = [l \in Lookups |-> <<>>]
            /\ geo_sent' = <<>>
            /\ ranking_sent' = [c \in Slots |-> 0]
            /\ pass_completed' = FALSE
       ELSE UNCHANGED <<ranking_data, ranking_error, fields, view_data_clicked, sent,
                        geo_sent, ranking_sent, pass_completed>>
    /\ session_inputs' = inputs
    /\ fetch_success' = TRUE
    /\ lat' = <<>>
    /\ lon' = <<>>
    /\ step' = 0
    /\ pc' = "main"
    /\ next_submit' = 1
    /\ fstate' = [c \in Slots |-> "none"]
    /\ fresult' = [c \in Slots |-> NoResult]
    /\ fresponse' = [c \in Slots |-> NoResponse]
    /\ calls' = [c \in Slots |-> 0]
    /\ yielded' = {}
    /\ ranking_results' = <<>>
    /\ ranking_errors' = <<>>
    /\ unique_errors' = <<>>
    /\ top_cities' = NotRendered
    /\ UNCHANGED <<widget_key, inputs>>

(* if st.session_state.view_data_clicked: ... else: the welcome text *)
SkipDashboard ==
    /\ pc = "main"
    /\ ~view_data_clicked
    /\ pc' = "idle"
    /\ UNCHANGED <<waqi_api_key, next_submit, fstate, fresult, fresponse, calls, yielded,
                   ranking_results, ranking_errors, unique_errors, ranking_data, ranking_error,
                   top_cities, sessVars>>

RankingAlways == TRUE

(* line 480: ranking_data is None and ranking_error is None *)
RankingWanted == ranking_data = <<>> /\ ranking_error = <<>>

(* lines 480-483: the block is entered with two empty lists *)
EnterRanking ==
    /\ pc = "main"
    /\ view_data_clicked
    /\ RankingWanted
    /\ ranking_results' = <<>>
    /\ ranking_errors' = <<>>
    /\ pc' = "submit"
    /\ UNCHANGED <<waqi_api_key, next_submit, fstate, fresult, fresponse, calls, yielded,
                   unique_errors, ranking_data, ranking_error, top_cities, sessVars>>

(* line 480 is false: the block is skipped *)
SkipRanking ==
    /\ pc = "main"
    /\ view_data_clicked
    /\ ~RankingWanted
    /\ pc' = "done"
    /\ UNCHANGED <<waqi_api_key, next_submit, fstate, fresult, fresponse, calls, yielded,
                   ranking_results, ranking_errors, unique_errors, ranking_data, ranking_error,
                   top_cities, sessVars>>

(* the rest of the page is drawn and the run ends *)
FinishRun ==
    /\ pc = "done"
    /\ top_cities # NotRendered
    /\ pc' = "idle"
    /\ pass_completed' = TRUE
    /\ UNCHANGED <<waqi_api_key, next_submit, fstate, fresult, fresponse, calls, yielded,
                   ranking_results, ranking_errors, unique_errors, ranking_data, ranking_error,
                   top_cities, sessVars, session_inputs, fields, fetch_success, lat, lon, step,
                   sent, geo_sent, ranking_sent>>

----------------------------------------------------------------------------
(* The coordinates and the dependent features of the dashboard pass        *)
(* (lines 471-477 and 496-527). A request of a dependent lookup is         *)
(* answered ("ok") or not ("failed").                                      *)

DepResponses == {"ok", "failed"}
DashGeoResponses == { GeoList(<<237>>, <<904>>), GeoEmpty }

(* what a lookup returns, whether it sent its request, whether it raised *)
Fetched(data, error, requested) == [data |-> data, error |-> error, requested |-> requested]

get_iqair_aqi(resp) ==
    IF resp = "ok" THEN Fetched(<<"aqi_details">>, <<>>, TRUE)
                   ELSE Fetched(<<>>, <<"IQAir API Error">>, TRUE)

get_openweathermap_weather(resp) ==
    IF resp = "ok" THEN Fetched(<<"weather_details">>, <<>>, TRUE)
                   ELSE Fetched(<<>>, <<"OWM API Error">>, TRUE)

get_owm_history(la, lo, resp) ==
    IF la = <<>> \/ lo = <<>> THEN Fetched(<<>>, <<"History Error: Invalid coordinates.">>, FALSE)
    ELSE IF resp = "ok" THEN Fetched(<<"history">>, <<>>, TRUE)
                        ELSE Fetched(<<>>, <<"History Error">>, TRUE)

get_waqi_nearby_stations(api_key, la, lo, resp) ==
    IF la = <<>> \/ lo = <<>> THEN Fetched(<<>>, <<"Nearby Error: Invalid coordinates.">>, FALSE)
    ELSE IF api_key = "" THEN Fetched(<<>>, <<"Nearby Error: WAQI API Key missing.">>, FALSE)
    ELSE IF resp = "ok" THEN Fetched(<<"sorted_stations">>, <<>>, TRUE)
                        ELSE Fetched(<<>>, <<"Nearby Error">>, TRUE)

get_owm_5day_weather_forecast(la, lo, resp) ==
    IF la = <<>> \/ lo = <<>> THEN Fetched(<<>>, <<"Forecast Error: Invalid coordinates.">>, FALSE)
    ELSE IF resp = "ok" THEN Fetched(<<"processed_forecast">>, <<>>, TRUE)
                        ELSE Fetched(<<>>, <<"Weather Forecast Error">>, TRUE)

get_owm_aqi_forecast(la, lo, resp) ==
    IF la = <<>> \/ lo = <<>>
    THEN Fetched(<<>>, <<"AQI Forecast Error: Invalid coordinates.">>, FALSE)
    ELSE IF resp = "ok" THEN Fetched(<<"daily_max_aqi">>, <<>>, TRUE)
                        ELSE Fetched(<<>>, <<"AQI Forecast Error">>, TRUE)

get_waqi_map_stations(api_key, resp) ==
    IF api_key = "" THEN Fetched(<<>>, <<"Map Error: WAQI API Key missing.">>, FALSE)
    ELSE IF resp = "ok" THEN Fetched(<<"processed_stations">>, <<>>, TRUE)
                        ELSE Fetched(<<>>, <<"Map Error">>, TRUE)

forecast_pair_unset(weather_fc, aqi_fc) == [data |-> <<>>, error |-> <<>>]

(* lines 519-521 *)
forecast_pair(weather_fc, aqi_fc) ==
    IF weather_fc.error # <<>> \/ aqi_fc.error # <<>>
    THEN [data |-> <<>>, error |-> <<"Weather: ... | AQI: ...">>]
    ELSE IF weather_fc.data # <<>> /\ aqi_fc.data # <<>>
         THEN [data |-> <<"forecast">>, error |-> <<>>]
         ELSE [data |-> <<>>, error |-> <<"Failed to retrieve complete forecast data.">>]

(* the body of the block of a dependent feature: what it stores, the       *)
(* lookups that sent a request, and whether it raised (lat - 10 on None)   *)
Stored(pair, requested, raises) == [pair |-> pair, requested |-> requested, raises |-> raises]

One(name, f) ==
    Stored([data |-> f.data, error |-> f.error], IF f.requested THEN {name} ELSE {}, FALSE)

dependent_block(name, api_key, la, lo, r1, r2) ==
    CASE name = "aqi" -> One("aqi", get_iqair_aqi(r1))
      [] name = "weather" -> One("weather", get_openweathermap_weather(r1))
      [] name = "history" -> One("history", get_owm_history(la, lo, r1))
      [] name = "nearby" -> One("nearby", get_waqi_nearby_stations(api_key, la, lo, r1))
      [] name = "forecast" ->
           LET weather_fc == get_owm_5day_weather_forecast(la, lo, r1)
               aqi_fc == get_owm_aqi_forecast(la, lo, r2)
           IN  Stored(forecast_pair(weather_fc, aqi_fc),
                      (IF weather_fc.requested THEN {"weather_forecast"} ELSE {})
                        \cup (IF aqi_fc.requested THEN {"aqi_forecast"} ELSE {}),
                      FALSE)
      [] OTHER ->
           IF la = <<>> \/ lo = <<>>
           THEN Stored([data |-> <<>>, error |-> <<>>], {}, TRUE)
           ELSE One("map", get_waqi_map_stations(api_key, r1))

gate_open(coordinates, coordinates_error) ==
    [fetch_success |-> TRUE,
     lat |-> IF coordinates # <<>> THEN <<coordinates[1].lat>> ELSE <<>>,
     lon |-> IF coordinates # <<>> THEN <<coordinates[1].lon>> ELSE <<>>]

(* lines 475-477: the locals the pass goes on with *)
coordinates_gate(coordinates, coordinates_error) ==
    IF coordinates_error # <<>> THEN [fetch_success |-> FALSE, lat |-> <<>>, lon |-> <<>>]
    ELSE IF coordinates # <<>>
         THEN [fetch_success |-> TRUE, lat |-> <<coordinates[1].lat>>,
               lon |-> <<coordinates[1].lon>>]
         ELSE [fetch_success |-> FALSE, lat |-> <<>>, lon |-> <<>>]

Unset(pair) == pair.data = <<>> /\ pair.error = <<>>

(* lines 473-477 when coordinates and coordinates_error are both None *)
FetchCoordinates ==
    /\ pc = "main"
    /\ view_data_clicked
    /\ step = 0
    /\ Unset(fields["coordinates"])
    /\ \E resps \in DashGeoResponses \X DashGeoResponses :
          LET r == get_coordinates(session_inputs["openweathermap_api_key"],
                                   session_inputs["city"], session_inputs["state_region"],
                                   session_inputs["country"], resps)
              g == coordinates_gate(r.ret.coords, r.ret.error)
          IN  /\ fields' = [fields EXCEPT !["coordinates"] =
                                [data |-> r.ret.coords, error |-> r.ret.error]]
              /\ geo_sent' = geo_sent \o r.requests
              /\ fetch_success' = g.fetch_success
              /\ lat' = g.lat
              /\ lon' = g.lon
    /\ step' = 1
    /\ UNCHANGED <<rankVars, sessVars, session_inputs, sent, ranking_sent, pass_completed>>

(* lines 473-477 when one of them is set: no lookup *)
KeepCoordinates ==
    /\ pc = "main"
    /\ view_data_clicked
    /\ step = 0
    /\ ~Unset(fields["coordinates"])
    /\ LET g == coordinates_gate(fields["coordinates"].data, fields["coordinates"].error)
       IN  fetch_success' = g.fetch_success /\ lat' = g.lat /\ lon' = g.lon
    /\ step' = 1
    /\ UNCHANGED <<rankVars, sessVars, session_inputs, fields, sent, geo_sent, ranking_sent,
                   pass_completed>>

(* the ranking block after the coordinates *)
DashEnterRanking == step = 1 /\ EnterRanking /\ UNCHANGED dashVars
DashSkipRanking == step = 1 /\ SkipRanking /\ UNCHANGED dashVars

(* a worker starts get_waqi_feed: one more request for its city *)
DashStartFetch ==
    /\ StartFetch
    /\ ranking_sent' = [c \in Slots |-> ranking_sent[c] + (calls'[c] - calls[c])]
    /\ UNCHANGED <<session_inputs, fields, fetch_success, lat, lon, step, sent, geo_sent,
                   pass_completed>>

(* line 496 is false: no dependent feature is fetched *)
SkipDependents ==
    /\ pc = "done"
    /\ step = 1
    /\ ~fetch_success
    /\ step' = Len(Features) + 1
    /\ UNCHANGED <<rankVars, sessVars, session_inputs, fields, fetch_success, lat, lon, sent,
                   geo_sent, ranking_sent, pass_completed>>

(* the block of the next dependent feature, its data and error both None *)
FetchDependent ==
    /\ pc = "done"
    /\ step \in 1..Len(Features)
    /\ fetch_success
    /\ Unset(fields[Features[step]])
    /\ \E r1, r2 \in DepResponses :
          LET out == dependent_block(Features[step], waqi_api_key, lat, lon, r1, r2) IN
          /\ fields' = [fields EXCEPT ![Features[step]] = out.pair]
          /\ sent' = [l \in Lookups |->
                         IF l \in out.requested THEN Append(sent[l], <<lat, lon>>) ELSE sent[l]]
          /\ pc' = IF out.raises THEN "raised" ELSE pc
    /\ step' = step + 1
    /\ UNCHANGED <<waqi_api_key, next_submit, fstate, fresult, fresponse, calls, yielded,
                   ranking_results, ranking_errors, unique_errors, ranking_data, ranking_error,
                   top_cities, sessVars, session_inputs, fetch_success, lat, lon, geo_sent,
                   ranking_sent, pass_completed>>

(* the block of the next dependent feature is skipped: a field is set *)
KeepDependent ==
    /\ pc = "done"
    /\ step \in 1..Len(Features)
    /\ fetch_success
    /\ ~Unset(fields[Features[step]])
    /\ step' = step + 1
    /\ UNCHANGED <<rankVars, sessVars, session_inputs, fields, fetch_success, lat, lon, sent,
                   geo_sent, ranking_sent, pass_completed>>

(* the display follows the fetch logic *)
DashRenderTopCities == step = Len(Features) + 1 /\ RenderTopCities /\ UNCHANGED dashVars

----------------------------------------------------------------------------
(* create_ranking_bar_chart on every ranking_data of up to MaxChartLen      *)
(* readings: the i-th reading the loop appended is of some city of the      *)
(* list, here the i-th, and has one of three AQI values                     *)

ChartAqis == {5, 42, 187}

ChartInputs ==
    UNION {[1..n -> ChartAqis] : n \in 0..MaxChartLen}

ReadingsOf(aqis) == [i \in 1..Len(aqis) |-> Reading(CITIES_FOR_RANKING[i], aqis[i])]

ChartIdle == chart_arg = <<>> /\ chart_ret = <<>>

ChartInit == chart_ret = <<>> /\ \E aqis \in ChartInputs : chart_arg = ReadingsOf(aqis)

CallChart ==
    /\ chart_ret = <<>>
    /\ chart_ret' = <<create_ranking_bar_chart(chart_arg, TopN)>>
    /\ UNCHANGED chart_arg

----------------------------------------------------------------------------
(* list(set(xs)) on lists of messages in which a message may repeat *)

MaxDedupLen == 4

DedupMessages == {
    RankingErrorPrefix("lahore") \o <<"Invalid", "WAQI", "API", "Key.">>,
    RankingErrorPrefix("karachi") \o <<"Invalid", "WAQI", "API", "Key.">>,
    RankingErrorPrefix("lahore") \o <<"WAQI", "API", "-", "Over", "quota">> }

DedupInputs == UNION {[1..k -> DedupMessages] : k \in 0..MaxDedupLen}

DedupIdle == dedup_arg = <<>> /\ dedup_ret = <<>>

DedupInit == dedup_arg \in DedupInputs /\ dedup_ret = <<>>

ApplyDedup ==
    /\ dedup_ret = <<>>
    /\ \E uniq \in list_of_set(dedup_arg) : dedup_ret' = <<uniq>>
    /\ UNCHANGED dedup_arg

----------------------------------------------------------------------------
(* Specifications *)

Init == CatIdle /\ RankInit /\ DedupIdle /\ ChartIdle /\ SessMidRun /\ LabelIdle /\ FeedIdle /\ CoordIdle /\ DashIdle

Next ==
    \/ Submit(NumCities) /\ UNCHANGED <<catVars, dedupVars, chartVars, sessVars, labelVars, feedVars, coordVars, dashVars>>
    \/ StartFetch /\ UNCHANGED <<catVars, dedupVars, chartVars, sessVars, labelVars, feedVars, coordVars, dashVars>>
    \/ FinishFetch(RankResponses) /\ UNCHANGED <<catVars, dedupVars, chartVars, sessVars, labelVars, feedVars, coordVars, dashVars>>
    \/ Collect /\ UNCHANGED <<catVars, dedupVars, chartVars, sessVars, labelVars, feedVars, coordVars, dashVars>>
    \/ Publish(NumCities) /\ UNCHANGED <<catVars, dedupVars, chartVars, sessVars, labelVars, feedVars, coordVars, dashVars>>
    \/ RenderTopCities /\ UNCHANGED <<catVars, dedupVars, chartVars, sessVars, labelVars, feedVars, coordVars, dashVars>>

Spec == Init /\ [][Next]_vars

PoolNext ==
    \/ Submit(NumPoolCities) /\ UNCHANGED <<catVars, dedupVars, chartVars, sessVars, labelVars, feedVars, coordVars, dashVars>>
    \/ StartFetch /\ UNCHANGED <<catVars, dedupVars, chartVars, sessVars, labelVars, feedVars, coordVars, dashVars>>
    \/ FinishFetch(PoolResponses) /\ UNCHANGED <<catVars, dedupVars, chartVars, sessVars, labelVars, feedVars, coordVars, dashVars>>
    \/ Collect /\ UNCHANGED <<catVars, dedupVars, chartVars, sessVars, labelVars, feedVars, coordVars, dashVars>>
    \/ Publish(NumPoolCities) /\ UNCHANGED <<catVars, dedupVars, chartVars, sessVars, labelVars, feedVars, coordVars, dashVars>>
    \/ RenderTopCities /\ UNCHANGED <<catVars, dedupVars, chartVars, sessVars, labelVars, feedVars, coordVars, dashVars>>

SpecPool == Init /\ [][PoolNext]_vars

(* The same block with calls that answer or time out, and the scheduling   *)
(* the runtime gives: a free worker takes the next queued task, a request  *)
(* settles within its timeout, the script thread keeps running.            *)
LiveSubmit == Submit(NumLiveCities) /\ UNCHANGED <<catVars, dedupVars, chartVars, sessVars, labelVars, feedVars, coordVars, dashVars>>
LiveStart == StartFetch /\ UNCHANGED <<catVars, dedupVars, chartVars, sessVars, labelVars, feedVars, coordVars, dashVars>>
LiveFinish == FinishFetch(LiveResponses) /\ UNCHANGED <<catVars, dedupVars, chartVars, sessVars, labelVars, feedVars, coordVars, dashVars>>
LiveCollect == Collect /\ UNCHANGED <<catVars, dedupVars, chartVars, sessVars, labelVars, feedVars, coordVars, dashVars>>
LivePublish == Publish(NumLiveCities) /\ UNCHANGED <<catVars, dedupVars, chartVars, sessVars, labelVars, feedVars, coordVars, dashVars>>
LiveRender == RenderTopCities /\ UNCHANGED <<catVars, dedupVars, chartVars, sessVars, labelVars, feedVars, coordVars, dashVars>>

LiveNext ==
    \/ LiveSubmit
    \/ LiveStart
    \/ LiveFinish
    \/ LiveCollect
    \/ LivePublish
    \/ LiveRender

Fairness ==
    /\ WF_vars(LiveSubmit)
    /\ WF_vars(LiveStart)
    /\ WF_vars(LiveFinish)
    /\ WF_vars(LiveCollect)
    /\ WF_vars(LivePublish)
    /\ WF_vars(LiveRender)

SpecLive == Init /\ [][LiveNext]_vars /\ Fairness

CatNext == CallCategory /\ UNCHANGED <<rankVars, dedupVars, chartVars, sessVars, labelVars, feedVars, coordVars, dashVars>>

CatSpecInit == CatInit /\ RankIdle /\ DedupIdle /\ ChartIdle /\ SessIdle /\ LabelIdle /\ FeedIdle /\ CoordIdle /\ DashIdle

SpecCat == CatSpecInit /\ [][CatNext]_vars

ResolverNext ==
    \/ CallCategory /\ UNCHANGED <<rankVars, dedupVars, chartVars, sessVars, labelVars, feedVars, coordVars, dashVars>>
    \/ CallOwm /\ UNCHANGED <<catVars, rankVars, dedupVars, chartVars, sessVars, feedVars, coordVars, dashVars>>
    \/ LookupRecommendation /\ UNCHANGED <<catVars, rankVars, dedupVars, chartVars, sessVars, feedVars, coordVars, dashVars>>

ResolverInit ==
    CatInit /\ RankIdle /\ DedupIdle /\ ChartIdle /\ SessIdle /\ LabelInit /\ FeedIdle /\ CoordIdle /\ DashIdle

SpecResolvers == ResolverInit /\ [][ResolverNext]_vars

FeedNext ==
    CallFeed /\ UNCHANGED <<catVars, rankVars, dedupVars, chartVars, sessVars, labelVars, coordVars, dashVars>>

FeedSpecInit ==
    CatIdle /\ RankIdle /\ DedupIdle /\ ChartIdle /\ SessIdle /\ LabelIdle /\ FeedInit /\ CoordIdle /\ DashIdle

SpecFeed == FeedSpecInit /\ [][FeedNext]_vars

CoordNext ==
    CallCoordinates
      /\ UNCHANGED <<catVars, rankVars, dedupVars, chartVars, sessVars, labelVars, feedVars, dashVars>>

CoordSpecInit ==
    CatIdle /\ RankIdle /\ DedupIdle /\ ChartIdle /\ SessIdle /\ LabelIdle /\ FeedIdle /\ CoordInit
      /\ DashIdle

SpecCoords == CoordSpecInit /\ [][CoordNext]_vars

DedupNext == ApplyDedup /\ UNCHANGED <<catVars, rankVars, chartVars, sessVars, labelVars, feedVars, coordVars, dashVars>>

DedupSpecInit == CatIdle /\ RankIdle /\ DedupInit /\ ChartIdle /\ SessIdle /\ LabelIdle /\ FeedIdle /\ CoordIdle /\ DashIdle

SpecDedup == DedupSpecInit /\ [][DedupNext]_vars

SessionNext ==
    \/ EditKey /\ UNCHANGED <<catVars, dedupVars, chartVars, labelVars, feedVars, coordVars, dashVars>>
    \/ EditOthers /\ UNCHANGED <<catVars, dedupVars, chartVars, labelVars, feedVars, coordVars, dashVars>>
    \/ ClickViewData /\ UNCHANGED <<catVars, dedupVars, chartVars, labelVars, feedVars, coordVars, dashVars>>
    \/ StartRun /\ UNCHANGED <<catVars, dedupVars, chartVars, labelVars, feedVars, coordVars>>
    \/ SkipDashboard /\ UNCHANGED <<catVars, dedupVars, chartVars, labelVars, feedVars, coordVars, dashVars>>
    \/ EnterRanking /\ UNCHANGED <<catVars, dedupVars, chartVars, labelVars, feedVars, coordVars, dashVars>>
    \/ SkipRanking /\ UNCHANGED <<catVars, dedupVars, chartVars, labelVars, feedVars, coordVars, dashVars>>
    \/ Submit(NumSessionCities) /\ UNCHANGED <<catVars, dedupVars, chartVars, sessVars, labelVars, feedVars, coordVars, dashVars>>
    \/ StartFetch /\ UNCHANGED <<catVars, dedupVars, chartVars, sessVars, labelVars, feedVars, coordVars, dashVars>>
    \/ FinishFetch(SessionResponses) /\ UNCHANGED <<catVars, dedupVars, chartVars, sessVars, labelVars, feedVars, coordVars, dashVars>>
    \/ Collect /\ UNCHANGED <<catVars, dedupVars, chartVars, sessVars, labelVars, feedVars, coordVars, dashVars>>
    \/ Publish(NumSessionCities) /\ UNCHANGED <<catVars, dedupVars, chartVars, sessVars, labelVars, feedVars, coordVars, dashVars>>
    \/ RenderTopCities /\ UNCHANGED <<catVars, dedupVars, chartVars, sessVars, labelVars, feedVars, coordVars, dashVars>>
    \/ FinishRun /\ UNCHANGED <<catVars, dedupVars, chartVars, labelVars, feedVars, coordVars>>

SessionInit == CatIdle /\ RankIdle /\ DedupIdle /\ ChartIdle /\ SessTyping /\ LabelIdle /\ FeedIdle /\ CoordIdle /\ DashIdle

SpecSession == SessionInit /\ [][SessionNext]_vars

Rest == <<catVars, dedupVars, chartVars, labelVars, feedVars, coordVars>>

DashNext ==
    \/ EditOthers /\ UNCHANGED <<Rest, dashVars>>
    \/ ClickViewData /\ UNCHANGED <<Rest, dashVars>>
    \/ StartRun /\ UNCHANGED Rest
    \/ SkipDashboard /\ UNCHANGED <<Rest, dashVars>>
    \/ FetchCoordinates /\ UNCHANGED Rest
    \/ KeepCoordinates /\ UNCHANGED Rest
    \/ DashEnterRanking /\ UNCHANGED Rest
    \/ DashSkipRanking /\ UNCHANGED Rest
    \/ Submit(NumDashCities) /\ UNCHANGED <<Rest, sessVars, dashVars>>
    \/ DashStartFetch /\ UNCHANGED <<Rest, sessVars>>
    \/ FinishFetch(LiveResponses) /\ UNCHANGED <<Rest, sessVars, dashVars>>
    \/ Collect /\ UNCHANGED <<Rest, sessVars, dashVars>>
    \/ Publish(NumDashCities) /\ UNCHANGED <<Rest, sessVars, dashVars>>
    \/ SkipDependents /\ UNCHANGED Rest
    \/ FetchDependent /\ UNCHANGED Rest
    \/ KeepDependent /\ UNCHANGED Rest
    \/ DashRenderTopCities /\ UNCHANGED <<Rest, sessVars>>
    \/ FinishRun /\ UNCHANGED Rest

DashInit ==
    CatIdle /\ RankIdle /\ DedupIdle /\ ChartIdle /\ SessTyped /\ LabelIdle /\ FeedIdle
      /\ CoordIdle /\ DashIdle

SpecDash == DashInit /\ [][DashNext]_vars

ChartNext == CallChart /\ UNCHANGED <<catVars, rankVars, dedupVars, sessVars, labelVars, feedVars, coordVars, dashVars>>

ChartSpecInit == CatIdle /\ RankIdle /\ DedupIdle /\ ChartInit /\ SessIdle /\ LabelIdle /\ FeedIdle /\ CoordIdle /\ DashIdle

SpecChart == ChartSpecInit /\ [][ChartNext]_vars

----------------------------------------------------------------------------
(* Properties of the category resolver (under SpecCat) *)

Called == aqi_ret # NotCalled

ClaimedBand(v) ==
    IF v <= 50 THEN Returned("Good", "#5EC445")
    ELSE IF v <= 100 THEN Returned("Moderate", "#F5E769")
    ELSE IF v <= 150 THEN Returned("Unhealthy for Sensitive Groups", "#FE9B57")
    ELSE IF v <= 200 THEN Returned("Unhealthy", "#FE6A69")
    ELSE IF v <= 300 THEN Returned("Very Unhealthy", "#A97ABC")
    ELSE Returned("Hazardous", "#A06A7B")

BandsHolding(v) ==
    {i \in 1..Len(AQI_CATEGORIES) : AQI_CATEGORIES[i].lower <= v /\ v <= AQI_CATEGORIES[i].upper}

(* C1: for every integer v of 0..500 the call returns the label and color  *)
(* of the one band of the table that holds v ([0,50] Good ... [301,500]    *)
(* Hazardous); no such v lies in two bands or in none.                     *)
C1_OneBandPerIndex ==
    (Called /\ aqi_arg.t = "int" /\ aqi_arg.v \in 0..500) =>
        /\ aqi_ret = ClaimedBand(aqi_arg.v)
        /\ Cardinality(BandsHolding(aqi_arg.v)) = 1

C1_Witness == aqi_arg = PyInt(51) /\ aqi_ret = Returned("Moderate", "#F5E769")

(* C8: every int or finite float argument below 0 resolves to              *)
(* ("Unknown", "#808080"), never to the Good band.                         *)
C8_NegativeIsUnknown ==
    (Called /\ aqi_arg.t \in {"int", "float"} /\ aqi_arg.v < 0) => aqi_ret = UnknownCategory

(* C9: the call never raises, whatever None, str, int or float it is given, *)
(* and None and non-numeric text resolve to ("Unknown", "#808080").         *)
C9_NeverRaises ==
    Called =>
        /\ aqi_ret.exc = ""
        /\ (aqi_arg.t = "None" \/ aqi_arg = PyStr(<<"a", "b", "c">>)) => aqi_ret = UnknownCategory

(* C10: every numeric argument above 500 (int, float, infinity included)   *)
(* resolves to ("Hazardous", "#A06A7B").                                   *)
C10_Above500IsHazardous ==
    (Called /\ \/ (aqi_arg.t = "int" /\ aqi_arg.v > 500)
               \/ (aqi_arg.t = "float" /\ aqi_arg.v > 5000)
               \/ aqi_arg.t = "inf")
        => aqi_ret = Returned("Hazardous", "#A06A7B")

----------------------------------------------------------------------------
(* Properties of the ranking aggregation (under Spec and SpecPool) *)

Dispatched == 1..(next_submit - 1)

Succeeded(c) == fresult[c].kind = "returned" /\ fresult[c].data # <<>>
SoftFailed(c) ==
    fresult[c].kind = "returned" /\ fresult[c].data = <<>> /\ fresult[c].error = <<>>
HardFailed(c) == fresult[c].kind = "returned" /\ fresult[c].error # <<>>
TaskRaised(c) == fresult[c].kind = "raised"

Count(xs, x) == Cardinality({i \in 1..Len(xs) : xs[i] = x})

Published == ranking_data # <<>> \/ ranking_error # <<>>

(* C2: the ranking result is published only after every submitted fetch has *)
(* settled: no future is queued or running, and none is left to submit,     *)
(* in any state where ranking_data or ranking_error is set.                 *)
C2_PublishedAfterAllSettled ==
    Published =>
        /\ pc = "done"
        /\ \A c \in Slots : fstate[c] \notin {"pending", "running"}
        /\ \A c \in Dispatched : fstate[c] = "finished" /\ c \in yielded

C2_Witness ==
    /\ Published
    /\ Cardinality(Dispatched) >= 3
    /\ \E c, d \in Dispatched : Succeeded(c) /\ HardFailed(d)

EntriesAreTheSuccesses ==
    /\ Len(ranking_results) = Cardinality({c \in Dispatched : Succeeded(c)})
    /\ \A c \in Dispatched : Succeeded(c) =>
          Count(ranking_results, fresult[c].data[1])
              = Cardinality({d \in Dispatched : fresult[d].data = fresult[c].data})
    /\ ranking_data = <<ranking_results>>

ExceptionMessage(c) ==
    RankingErrorPrefix(CITIES_FOR_RANKING[c]) \o <<"Exception", "-">> \o fresult[c].exc

Dropped(c) ==
    /\ HardFailed(c)
    /\ \/ Contains(fresult[c].error[1], <<"Unknown", "station">>)
       \/ Contains(fresult[c].error[1], <<"Unexpected", "WAQI", "status">>)

(* C3 as stated: at the end entries has one reading per succeeded location  *)
(* and nothing else, a soft failure adds nothing, and every hard failure    *)
(* has its message in errors.                                               *)
C3_EveryHardFailureRecorded ==
    pc = "done" =>
        /\ EntriesAreTheSuccesses
        /\ Len(ranking_errors)
              = Cardinality({c \in Dispatched : HardFailed(c) \/ TaskRaised(c)})
        /\ \A c \in Dispatched : HardFailed(c) => Count(ranking_errors, fresult[c].error[1]) = 1
        /\ \A c \in Dispatched : TaskRaised(c) => Count(ranking_errors, ExceptionMessage(c)) = 1

(* C3 amended: as above, but a hard failure whose message contains          *)
(* "Unknown station" or "Unexpected WAQI status" is dropped like a soft     *)
(* failure; every other hard failure has its message in errors once.        *)
C3_HardFailureRecordedUnlessDropped ==
    pc = "done" =>
        /\ EntriesAreTheSuccesses
        /\ Len(ranking_errors)
              = Cardinality({c \in Dispatched : (HardFailed(c) /\ ~Dropped(c)) \/ TaskRaised(c)})
        /\ \A c \in Dispatched :
              HardFailed(c) =>
                  Count(ranking_errors, fresult[c].error[1]) = (IF Dropped(c) THEN 0 ELSE 1)
        /\ \A c \in Dispatched : TaskRaised(c) => Count(ranking_errors, ExceptionMessage(c)) = 1

C3_Witness ==
    /\ pc = "done"
    /\ \E c, d, e \in Dispatched :
          /\ Succeeded(c)
          /\ HardFailed(d) /\ ~Dropped(d)
          /\ Dropped(e)
    /\ Len(ranking_results) = 1
    /\ Len(ranking_errors) = 1

IsInvalidKeyMessage(m) == Contains(m, <<"Invalid", "WAQI", "API", "Key.">>)

(* C5: the invalid-key failures of several locations of one aggregation     *)
(* collapse into one message of the deduplicated errors.                    *)
C5_AuthFailuresCollapse ==
    pc = "done" =>
        Cardinality({i \in 1..Len(unique_errors) : IsInvalidKeyMessage(unique_errors[i])}) <= 1

(* C6: every location is fetched exactly once and its own outcome reaches   *)
(* the loop body, whatever the outcomes of the other locations: no fetch is *)
(* started twice, and at the end none was skipped or cancelled.             *)
C6_EachLocationFetchedOnce ==
    /\ \A c \in Slots : calls[c] <= 1
    /\ pc = "done" =>
          \A c \in Dispatched : calls[c] = 1 /\ fresult[c] # NoResult /\ c \in yielded

C6_Witness ==
    /\ pc = "done"
    /\ \E c, d, e \in Dispatched :
          /\ c < d /\ d < e
          /\ HardFailed(c) /\ ~Dropped(c)
          /\ TaskRaised(d)
          /\ Succeeded(e)
    /\ Len(ranking_results) = 1
    /\ Len(ranking_errors) = 2

(* C7: at most MaxWorkers (5) fetches are in flight in any state; the       *)
(* further locations stay queued until a worker is free.                    *)
C7_PoolBounded == Cardinality(Running) <= MaxWorkers

C7_Witness ==
    /\ Cardinality(Running) = MaxWorkers
    /\ pc = "collect"
    /\ \E c \in Slots : fstate[c] = "pending"

----------------------------------------------------------------------------
(* Properties of list(set(...)) (under SpecDedup) *)

(* C4: each distinct error string appears at most once in the deduplicated  *)
(* list, and the list has exactly the strings of the original one.          *)
C4_EachMessageOnce ==
    dedup_ret # <<>> =>
        LET uniq == dedup_ret[1] IN
        /\ \A i, j \in 1..Len(uniq) : uniq[i] = uniq[j] => i = j
        /\ Range(uniq) = Range(dedup_arg)

C4_Witness ==
    /\ dedup_ret # <<>>
    /\ Len(dedup_arg) = 2
    /\ dedup_arg[1] = dedup_arg[2]
    /\ Len(dedup_ret[1]) = 1

----------------------------------------------------------------------------
(* Which responses are failures, and whether the user gets to hear of them *)

(* the request failed, or WAQI answered with an error other than the plain *)
(* "Unknown station"                                                       *)
ErrorResponse(resp) ==
    \/ resp.kind \in {"request_exception", "other_exception"}
    \/ resp.kind = "json" /\ resp.status = "error" /\ resp.text # <<"Unknown", "station">>

UnexpectedStatus(resp) == resp.kind = "json" /\ resp.status \notin {"ok", "error"}

(* some deduplicated error names the city: every message of the block      *)
(* starts with "Ranking Error (<city>):"                                    *)
Reported(c) ==
    \E m \in Range(unique_errors) :
        /\ Len(m) >= 5
        /\ SubSeq(m, 1, 5) = RankingErrorPrefix(CITIES_FOR_RANKING[c])

(* C11 as stated: after the aggregation every fetch that ended in a hard    *)
(* failure class, a response of unexpected status included, has a message   *)
(* among the deduplicated errors.                                           *)
C11_EveryFailureClassReported ==
    pc = "done" =>
        \A c \in Dispatched :
            \/ ErrorResponse(fresponse[c])
            \/ UnexpectedStatus(fresponse[c])
            \/ fresponse[c].kind = "task_raises"
            => Reported(c)

(* C11 amended: after the aggregation a fetch whose request failed or whose *)
(* response is a WAQI error has its message among the deduplicated errors   *)
(* exactly when the message contains neither "Unknown station" nor          *)
(* "Unexpected WAQI status"; a fetch that raised has its exception message  *)
(* there; a response whose status is neither "ok" nor "error" is a soft     *)
(* failure and no error names its city.                                     *)
C11_ErrorSurfacedUnlessFiltered ==
    pc = "done" =>
        \A c \in Dispatched :
            /\ ErrorResponse(fresponse[c]) =>
                  /\ HardFailed(c)
                  /\ fresult[c].error[1] \in Range(unique_errors) <=> ~Dropped(c)
            /\ fresponse[c].kind = "task_raises" =>
                  ExceptionMessage(c) \in Range(unique_errors)
            /\ UnexpectedStatus(fresponse[c]) => SoftFailed(c) /\ ~Reported(c)

C11_Witness ==
    /\ pc = "done"
    /\ \E c, d, e \in Dispatched :
          /\ fresponse[c].kind = "request_exception" /\ Reported(c)
          /\ UnexpectedStatus(fresponse[d]) /\ ~Reported(d)
          /\ ErrorResponse(fresponse[e]) /\ Dropped(e)

----------------------------------------------------------------------------
(* C12: the aggregation never raises for the failure of one location: no    *)
(* exception leaves the loop, and at the end every location whose task      *)
(* raised has exactly one message, "Ranking Error (<city>): Exception -     *)
(* ...", every future was taken from the loop, and the entries and the      *)
(* errors are published.                                                    *)
C12_FailuresContained ==
    /\ pc # "raised"
    /\ pc = "done" =>
          /\ yielded = Dispatched
          /\ ranking_data = <<ranking_results>>
          /\ \A c \in Dispatched :
                TaskRaised(c) =>
                    /\ Count(ranking_errors, ExceptionMessage(c)) = 1
                    /\ Reported(c)
                    /\ ranking_error # <<>>

C12_Witness ==
    /\ pc = "done"
    /\ \E c, d, e \in Dispatched :
          /\ TaskRaised(c) /\ Reported(c)
          /\ Succeeded(d) /\ Len(ranking_results) = 1
          /\ HardFailed(e) /\ Reported(e)

----------------------------------------------------------------------------
(* the distinct messages the loop recorded *)
DistinctErrors == Range(ranking_errors)

Min(a, b) == IF a < b THEN a ELSE b

(* C13: after the aggregation ranking_error is None exactly when no         *)
(* distinct message exists; otherwise its text is one message, or two       *)
(* different ones joined by "; ", followed by "..." exactly when more than  *)
(* two distinct messages exist; no message of a soft-failed location is     *)
(* part of it, and section 7 shows this text as the ranking error.          *)
C13_AtMostTwoMessagesShown ==
    pc = "done" =>
        /\ ranking_error = <<>> <=> DistinctErrors = {}
        /\ ranking_error # <<>> =>
              LET text == ranking_error[1]
                  n == Cardinality(DistinctErrors)
                  suffix == IF n > 2 THEN <<"...">> ELSE <<>>
              IN  /\ Cardinality({m \in DistinctErrors : Contains(text, m)}) = Min(2, n)
                  /\ text[Len(text)] = "..." <=> n > 2
                  /\ \/ n = 1 /\ text \in DistinctErrors
                     \/ n >= 2 /\ \E m1, m2 \in DistinctErrors :
                                     m1 # m2 /\ text = m1 \o <<";">> \o m2 \o suffix
                  /\ \A c \in Dispatched :
                        SoftFailed(c) =>
                            ~Contains(text, RankingErrorPrefix(CITIES_FOR_RANKING[c]))
                  /\ top_cities # NotRendered =>
                        /\ top_cities.kind = "error"
                        /\ top_cities.text = <<"City", "Ranking", "Error:">> \o text

C13_Witness ==
    /\ pc = "done"
    /\ Cardinality(DistinctErrors) = 3
    /\ top_cities.kind = "error"
    /\ top_cities.text[Len(top_cities.text)] = "..."

----------------------------------------------------------------------------
(* C14: whenever an aggregation finishes with at least one successful       *)
(* entry, section 7 shows the ranking of those entries, sorted by AQI from  *)
(* the highest down, also when other locations hard-failed.                 *)
C14_RankingShownDespiteErrors ==
    top_cities # NotRendered /\ ranking_results # <<>> =>
        /\ top_cities.kind = "chart"
        /\ Reversed(top_cities.bars) = sorted_by_aqi_desc(ranking_results)

----------------------------------------------------------------------------
(* the bars of the chart from the top one down: the presentation order *)
Presented(bars) == Reversed(bars)

(* C17: the presentation order does not depend on the order the fetches     *)
(* completed in: the chart of the same readings appended in the opposite    *)
(* order presents the same locations in the same order.                     *)
C17_OrderIndependentOfCompletion ==
    chart_ret # <<>> =>
        create_ranking_bar_chart(Reversed(chart_arg), TopN) = chart_ret[1]

(* C18: create_ranking_bar_chart presents the entries by AQI descending and *)
(* keeps the top_n highest: min(top_n, len) of the given entries, each      *)
(* once, and no omitted entry has a higher AQI than a kept one; for the     *)
(* values [42, 187, 5] the order is [187, 42, 5].                           *)
C18_TopNByAqiDescending ==
    chart_ret # <<>> =>
        LET kept == Presented(chart_ret[1]) IN
        /\ Len(kept) = Min(TopN, Len(chart_arg))
        /\ \A i, j \in 1..Len(kept) : i < j => kept[i].aqi >= kept[j].aqi
        /\ Range(kept) \subseteq Range(chart_arg)
        /\ Cardinality(Range(kept)) = Len(kept)
        /\ \A x \in Range(chart_arg) \ Range(kept) : \A k \in Range(kept) : x.aqi <= k.aqi
        /\ [i \in 1..Len(chart_arg) |-> chart_arg[i].aqi] = <<42, 187, 5>> =>
              [i \in 1..Len(kept) |-> kept[i].aqi] = <<187, 42, 5>>

C18_Witness ==
    /\ chart_ret # <<>>
    /\ Len(chart_arg) = MaxChartLen
    /\ Len(chart_ret[1]) = TopN
    /\ chart_arg[1].aqi = 42 /\ chart_arg[2].aqi = 187 /\ chart_arg[3].aqi = 5
    /\ \E x \in Range(chart_arg) : x \notin Range(chart_ret[1])

----------------------------------------------------------------------------
(* the futures the loop has taken that append to ranking_errors *)
Recorded(c) == TaskRaised(c) \/ (HardFailed(c) /\ ~Dropped(c))

RecordedMessage(c) == IF TaskRaised(c) THEN ExceptionMessage(c) ELSE fresult[c].error[1]

NoAppendLost ==
    /\ Len(ranking_results) = Cardinality({c \in yielded : Succeeded(c)})
    /\ \A c \in yielded : Succeeded(c) => Count(ranking_results, fresult[c].data[1]) = 1
    /\ Len(ranking_errors) = Cardinality({c \in yielded : Recorded(c)})
    /\ \A c \in yielded : Recorded(c) => Count(ranking_errors, RecordedMessage(c)) = 1

IsPrefix(xs, ys) == Len(xs) <= Len(ys) /\ SubSeq(ys, 1, Len(xs)) = xs

(* a step that changes a list is a step of the loop on one future, which    *)
(* appends one item to one list; no task starts or ends in the same step    *)
AppendByCollector ==
    ranking_results' # ranking_results \/ ranking_errors' # ranking_errors =>
        /\ pc = "collect"
        /\ fstate' = fstate /\ fresult' = fresult /\ calls' = calls
        /\ \E c \in Slots \ yielded : yielded' = yielded \cup {c}
        /\ IsPrefix(ranking_results, ranking_results')
        /\ IsPrefix(ranking_errors, ranking_errors')
        /\ Len(ranking_results') + Len(ranking_errors')
              = Len(ranking_results) + Len(ranking_errors) + 1

(* C19: the worker tasks never touch ranking_results or ranking_errors:     *)
(* every change of either list is one append by the collecting loop, for    *)
(* the one future it has just taken, and no append is lost: at any moment   *)
(* the lists hold exactly one item per future taken that contributes one.   *)
C19_AppendsSerialized == []NoAppendLost /\ [][AppendByCollector]_vars

C19_Witness ==
    /\ pc = "collect"
    /\ Cardinality(Running) >= 2
    /\ Len(ranking_results) + Len(ranking_errors) = 1
    /\ Cardinality(yielded) = 1

----------------------------------------------------------------------------
(* a call that timed out is a hard failure of its own location, and every   *)
(* location that answered with a reading has its entry                      *)
TimeoutIsOneHardFail ==
    pc = "done" =>
        \A c \in Dispatched :
            /\ fresponse[c] = TimedOut =>
                  /\ HardFailed(c)
                  /\ Count(ranking_errors, fresult[c].error[1]) = 1
                  /\ Contains(fresult[c].error[1], <<"Request", "failed", "-">>)
            /\ fresponse[c] # TimedOut =>
                  /\ Succeeded(c)
                  /\ Count(ranking_data[1], fresult[c].data[1]) = 1

----------------------------------------------------------------------------
(* C15: in every sequence of sidebar edits, "View Data" clicks and reruns,  *)
(* no ranking fetch task is submitted to the pool while the WAQI API key is *)
(* empty.                                                                   *)
C15_NoDispatchWithoutKey ==
    (\E c \in Slots : fstate[c] # "none") => waqi_api_key # ""

----------------------------------------------------------------------------
(* the run has executed the ranking block *)
BlockRan == pc \in {"done", "idle"} /\ Dispatched # {}

(* the published result is made of this run's futures and of nothing else *)
BuiltFromScratch ==
    BlockRan =>
        /\ EntriesAreTheSuccesses
        /\ ranking_error = <<>> <=> \A c \in Dispatched : ~Recorded(c)
        /\ ranking_error # <<>> =>
              \E c \in Dispatched : Recorded(c) /\ Contains(ranking_error[1], RecordedMessage(c))

(* the step in which a run handles the pressed button *)
ClickHandled == clicked /\ ~clicked'

StableOnceResolved ==
    ranking_data # <<>> /\ ~ClickHandled =>
        ranking_data' = ranking_data /\ ranking_error' = ranking_error

ClickDiscards == ClickHandled => ranking_data' = <<>> /\ ranking_error' = <<>>

(* C16 as stated: the result is built from empty collections, no later      *)
(* rerun changes it, and the next "View Data" click discards it and         *)
(* rebuilds it: when the run of a click has ended, a result is there.       *)
C16_ClickDiscardsAndRebuilds ==
    /\ [](BuiltFromScratch /\ (pc = "idle" /\ discarded => ranking_data # <<>>))
    /\ [][StableOnceResolved /\ ClickDiscards]_vars

(* C16 amended: as above, but the click rebuilds the result only if all     *)
(* seven sidebar fields are filled; with an empty field it only discards:   *)
(* when its run has ended, ranking_data and ranking_error are None.         *)
C16_ClickDiscardsAndRebuildsIfValid ==
    /\ [](/\ BuiltFromScratch
          /\ pc = "idle" /\ view_data_clicked => ranking_data # <<>>
          /\ pc = "idle" /\ run_clicked /\ ~view_data_clicked =>
                ranking_data = <<>> /\ ranking_error = <<>>)
    /\ [][StableOnceResolved /\ ClickDiscards]_vars

C16_Witness ==
    /\ pc = "idle"
    /\ discarded
    /\ BlockRan
    /\ ranking_data # <<>>
    /\ Len(ranking_data[1]) = NumSessionCities
    /\ top_cities.kind = "chart"

----------------------------------------------------------------------------
(* The label resolvers and the recommendation lookup (C22..C24) *)

OwmCalled == owm_ret # <<>>

UsAqiLabels == {AQI_CATEGORIES[i].label : i \in 1..Len(AQI_CATEGORIES)}
OwmLabels == {OWM_AQI_MAP[k] : k \in 1..Len(OWM_AQI_MAP)}

(* C22: get_owm_aqi_forecast_category maps 1, 2, 3, 4, 5 to "Good (1)",     *)
(* "Fair (2)", "Moderate (3)", "Poor (4)", "Very Poor (5)", and every other *)
(* integer and None to "Unknown".                                           *)
C22_OwmIndexLabels ==
    OwmCalled =>
        /\ owm_arg = PyInt(1) => owm_ret = <<"Good (1)">>
        /\ owm_arg = PyInt(2) => owm_ret = <<"Fair (2)">>
        /\ owm_arg = PyInt(3) => owm_ret = <<"Moderate (3)">>
        /\ owm_arg = PyInt(4) => owm_ret = <<"Poor (4)">>
        /\ owm_arg = PyInt(5) => owm_ret = <<"Very Poor (5)">>
        /\ (owm_arg.t = "int" /\ owm_arg.v \notin 1..5) => owm_ret = <<"Unknown">>
        /\ owm_arg = PyNone => owm_ret = <<"Unknown">>

C22_Witness ==
    /\ owm_arg = PyInt(0)
    /\ owm_ret = <<"Unknown">>

(* C23 as stated: for every input get_aqi_category returns one of the six   *)
(* US-AQI labels or "Unknown" and never an OWM label, and                   *)
(* get_owm_aqi_forecast_category returns one of the five OWM labels or      *)
(* "Unknown" and never a US-AQI label; the two sets share only "Unknown".   *)
C23_ResolversNeverMixLabels ==
    /\ (UsAqiLabels \cup {"Unknown"}) \cap (OwmLabels \cup {"Unknown"}) = {"Unknown"}
    /\ Called =>
          /\ aqi_ret.exc = ""
          /\ aqi_ret.label \in UsAqiLabels \cup {"Unknown"}
          /\ aqi_ret.label \notin OwmLabels
    /\ OwmCalled =>
          /\ owm_ret[1] \in OwmLabels \cup {"Unknown"}
          /\ owm_ret[1] \notin UsAqiLabels

(* what holds of the two resolvers: a label that is returned is never one   *)
(* of the other resolver's set                                              *)
ReturnedLabelsNeverMixed ==
    /\ (UsAqiLabels \cup {"Unknown"}) \cap (OwmLabels \cup {"Unknown"}) = {"Unknown"}
    /\ (Called /\ aqi_ret.exc = "") =>
          /\ aqi_ret.label \in UsAqiLabels \cup {"Unknown"}
          /\ aqi_ret.label \notin OwmLabels
    /\ OwmCalled =>
          /\ owm_ret[1] \in OwmLabels \cup {"Unknown"}
          /\ owm_ret[1] \notin UsAqiLabels

LookedUp == rec_ret # <<>>

(* C24: the recommendation lookup never fails: it yields an entry that has  *)
(* both 'short' and 'details'; a label the table does not know yields the   *)
(* "Unknown" entry; each of the seven labels get_aqi_category can return    *)
(* has an entry of its own.                                                 *)
C24_RecommendationLookupNeverFails ==
    /\ UsAqiLabels \cup {"Unknown"} \subseteq DOMAIN HEALTH_RECOMMENDATIONS
    /\ \A l1, l2 \in UsAqiLabels \cup {"Unknown"} :
          l1 # l2 => HEALTH_RECOMMENDATIONS[l1] # HEALTH_RECOMMENDATIONS[l2]
    /\ LookedUp =>
          /\ rec_ret[1].exc = ""
          /\ DOMAIN rec_ret[1].entry = {"short", "details"}
          /\ rec_ret[1].entry.short # "" /\ rec_ret[1].entry.details # ""
          /\ rec_arg[1] \in UsAqiLabels \cup {"Unknown"} =>
                rec_ret[1].entry = HEALTH_RECOMMENDATIONS[rec_arg[1]]
          /\ rec_arg[1] \notin UsAqiLabels \cup {"Unknown"} =>
                rec_ret[1].entry = HEALTH_RECOMMENDATIONS["Unknown"]

C24_Witness ==
    /\ rec_arg = <<"Fair (2)">>
    /\ LookedUp
    /\ rec_ret[1].entry.short = "AQI category could not be determined."

----------------------------------------------------------------------------
(* The outcomes of get_waqi_feed (C25) *)

FeedCalled == feed_ret # NoResult

FeedSuccess == feed_ret.kind = "returned" /\ feed_ret.data # <<>> /\ feed_ret.error = <<>>
FeedSoftFail == feed_ret.kind = "returned" /\ feed_ret.data = <<>> /\ feed_ret.error = <<>>
FeedHardFail == feed_ret.kind = "returned" /\ feed_ret.data = <<>> /\ feed_ret.error # <<>>

Answered == feed_key # "" /\ feed_resp.kind = "json"

(* the "aqi" field parses to an integer: int(float(aqi)) gives a value *)
AqiParses ==
    /\ feed_resp.aqi.t # "None"
    /\ py_float(feed_resp.aqi).exc = ""
    /\ py_int(py_float(feed_resp.aqi).val).exc = ""

(* the "aqi" field is no number: float(aqi) gives none, or gives NaN *)
AqiNonNumeric ==
    /\ feed_resp.aqi.t # "None"
    /\ \/ py_float(feed_resp.aqi).exc # ""
       \/ py_float(feed_resp.aqi).val = PyNaN

(* C25: every call of get_waqi_feed ends in exactly one of three outcomes   *)
(* and never raises: success only for status "ok" with an AQI that parses   *)
(* to an integer; soft-fail for "ok" with a missing or non-numeric AQI and  *)
(* for the provider error "Unknown station"; hard-fail for a missing key,   *)
(* "Invalid key", any other provider error, a request exception or any      *)
(* other exception; never a reading together with an error.                 *)
C25_FeedEndsInOneOfThreeOutcomes ==
    FeedCalled =>
        /\ feed_ret.kind = "returned"
        /\ ~(feed_ret.data # <<>> /\ feed_ret.error # <<>>)
        /\ FeedSuccess \/ FeedSoftFail \/ FeedHardFail
        /\ FeedSuccess =>
              /\ Answered /\ feed_resp.status = "ok" /\ AqiParses
              /\ feed_ret.data[1].aqi = py_int(py_float(feed_resp.aqi).val).v
        /\ (Answered /\ feed_resp.status = "ok" /\ feed_resp.aqi.t = "None") => FeedSoftFail
        /\ (Answered /\ feed_resp.status = "ok" /\ AqiNonNumeric) => FeedSoftFail
        /\ (Answered /\ feed_resp.status = "error"
               /\ feed_resp.text = <<"Unknown", "station">>) => FeedSoftFail
        /\ feed_key = "" => FeedHardFail
        /\ (Answered /\ feed_resp.status = "error"
               /\ feed_resp.text # <<"Unknown", "station">>) => FeedHardFail
        /\ (feed_key # "" /\ feed_resp.kind \in {"request_exception", "other_exception"}) =>
              FeedHardFail

C25_Witness ==
    /\ FeedCalled
    /\ feed_key # ""
    /\ feed_resp = JsonOk(PyStr(<<"-">>), <<>>)
    /\ FeedSoftFail

----------------------------------------------------------------------------
(* The second geocoding request (C29) *)

CoordsCalled == coord_ret # <<>>

FirstFailed == coord_resps[1].kind # "list" \/ coord_resps[1].lat = <<>> \/ coord_resps[1].lon = <<>>

FirstWasInvalidKey == coord_resps[1].kind = "http" /\ coord_resps[1].code = 401

SimplifiedDiffers ==
    location_query_simple(coord_args.city, coord_args.country)
        # location_query_full(coord_args.city, coord_args.state, coord_args.country)

(* C29: get_coordinates makes a second request, with the simplified         *)
(* 'city,country' query, only if the first request failed, the simplified   *)
(* query differs from the full one, and the first failure was not an        *)
(* invalid-API-key failure: on HTTP 401 no second request is made.          *)
C29_NoSecondRequestAfterInvalidKey ==
    CoordsCalled =>
        /\ Len(coord_requests) \in 1..2
        /\ coord_requests[1] =
              location_query_full(coord_args.city, coord_args.state, coord_args.country)
        /\ Len(coord_requests) = 2 =>
              /\ coord_requests[2] = location_query_simple(coord_args.city, coord_args.country)
              /\ FirstFailed /\ SimplifiedDiffers /\ ~FirstWasInvalidKey
        /\ FirstWasInvalidKey => Len(coord_requests) = 1

(* what holds: the second request is made exactly when the first failed and *)
(* the simplified query differs, whatever the failure was, unless the text  *)
(* of the failure contains 'Invalid API key'                                *)
SecondRequestAfterAnyFailure ==
    CoordsCalled =>
        /\ Len(coord_requests) = 2 => FirstFailed /\ SimplifiedDiffers
        /\ (FirstWasInvalidKey /\ SimplifiedDiffers) => Len(coord_requests) = 2

----------------------------------------------------------------------------
(* The requests of a refresh (C21, C26, C27) and the click (C28) *)

RankingRequestedOnce == \A c \in Slots : ranking_sent[c] <= 1

LookupsRequestedOnce == \A l \in Lookups : Len(sent[l]) <= 1

(* C21 as stated: within one refresh no request is issued again: each       *)
(* ranking location is requested at most once and each other lookup, the    *)
(* geocoding lookup of get_coordinates included, sends at most one request. *)
C21_NoRequestIssuedAgain ==
    /\ RankingRequestedOnce
    /\ LookupsRequestedOnce
    /\ Len(geo_sent) <= 1

(* C21 amended: as above, but the geocoding lookup sends up to two          *)
(* requests: after a first request that failed, one more with the           *)
(* simplified, shorter query; it never sends the same query twice.          *)
C21_NoRequestIssuedAgainButFallbackQuery ==
    /\ RankingRequestedOnce
    /\ LookupsRequestedOnce
    /\ Len(geo_sent) <= 2
    /\ Len(geo_sent) = 2 =>
          /\ geo_sent[1] # geo_sent[2]
          /\ Len(geo_sent[2]) < Len(geo_sent[1])

C21_Witness ==
    /\ pc = "idle"
    /\ pass_completed
    /\ ~run_clicked
    /\ Len(geo_sent) = 2
    /\ ranking_sent[1] = 1
    /\ \A l \in Lookups : Len(sent[l]) = 1

GeocodingDone == ~Unset(fields["coordinates"])

GeocodingFailed ==
    /\ GeocodingDone
    /\ fields["coordinates"].error # <<>> \/ fields["coordinates"].data = <<>>

(* every feature the pass fetches is left with its data or its error *)
FetchedFeaturesSet ==
    /\ GeocodingDone
    /\ ranking_data # <<>> \/ ranking_error # <<>>
    /\ ~GeocodingFailed => \A k \in 1..Len(Features) : ~Unset(fields[Features[k]])

NoRequestInStep == sent' = sent /\ geo_sent' = geo_sent /\ ranking_sent' = ranking_sent

(* C26: once a dashboard pass has run to its end for a click, every later   *)
(* rerun without a new click issues no HTTP request, for the ranking and    *)
(* for every other feature, each fetched feature being left with its data   *)
(* or its error non-None.                                                   *)
C26_NoRequestAfterCompletedPass ==
    /\ [](pass_completed => FetchedFeaturesSet)
    /\ [][(pass_completed /\ pass_completed') => NoRequestInStep]_vars

C26_Witness ==
    /\ pass_completed
    /\ ~run_clicked
    /\ pc = "done"
    /\ step = Len(Features) + 1
    /\ ~GeocodingFailed
    /\ ranking_sent[1] = 1
    /\ \A l \in Lookups : Len(sent[l]) = 1

(* C27: when the geocoding lookup fails, no dependent fetch is issued in    *)
(* that pass nor in a later rerun before the next click, while the ranking  *)
(* aggregation is still run; a dependent fetch is issued only with lat and  *)
(* lon non-None.                                                            *)
C27_DependentFetchesGatedByCoordinates ==
    /\ GeocodingFailed => \A l \in Lookups : sent[l] = <<>>
    /\ (GeocodingFailed /\ pass_completed) => (ranking_data # <<>> /\ ranking_sent[1] = 1)
    /\ \A l \in Lookups : \A n \in 1..Len(sent[l]) :
          /\ sent[l][n][1] # <<>>
          /\ sent[l][n][2] # <<>>
          /\ ~GeocodingFailed

C27_Witness ==
    /\ GeocodingFailed
    /\ pass_completed
    /\ ~run_clicked
    /\ pc = "idle"
    /\ ranking_data # <<>>
    /\ ranking_sent[1] = 1
    /\ \A l \in Lookups : sent[l] = <<>>

AllSevenFilled == widget_key # "" /\ \A i \in OtherInputs : inputs[i] # <<>>

ClickResetsAndValidates ==
    ClickHandled =>
        /\ fields' = NoFields
        /\ ranking_data' = <<>> /\ ranking_error' = <<>>
        /\ view_data_clicked' = AllSevenFilled

(* the script is inside the fetch logic of lines 471-527 *)
InFetchLogic == pc \notin {"idle", "main"} \/ step # 0

(* C28: a "View Data" click resets all sixteen data and error fields to     *)
(* None and sets view_data_clicked to True exactly when all seven inputs    *)
(* are non-empty, to False otherwise; the fetch logic of the dashboard runs *)
(* only while view_data_clicked is True.                                    *)
C28_ClickResetsAndValidates ==
    /\ [](InFetchLogic => view_data_clicked)
    /\ [][ClickResetsAndValidates /\ (~NoRequestInStep => view_data_clicked)]_vars

C28_Witness ==
    /\ pc = "idle"
    /\ run_clicked
    /\ discarded
    /\ ~view_data_clicked
    /\ widget_key # ""
    /\ inputs = [InputValue EXCEPT !["city"] = <<>>]
    /\ fields = NoFields
    /\ ranking_data = <<>>

=============================================================================
